---- MODULE Spec2Model ----
(***************************************************************************)
(* A model of the core of tiny_vm (Oxide): the typed values and their      *)
(* operators (typed_values.rs), the machine that evaluates expression      *)
(* trees (machine.rs), the interpreter that retains a machine              *)
(* (interpreter.rs), the dataframe verbs over a row collection             *)
(* (dataframe.rs), the platform functions (platform.rs) and the data       *)
(* types (data_types.rs).                                                  *)
(***************************************************************************)
EXTENDS Integers, Sequences, FiniteSets, Bags, TLC

VARIABLES
    overflow_checks, \* build profile: TRUE = integer overflow panics (debug), FALSE = wraps (release)
    lhs, rhs,        \* operands of the operator application
    binop,           \* the binary node last evaluated on (lhs, rhs); "" before the first
    out,             \* its outcome: [st, ms, tv] as returned by evaluate
    machine,         \* Interpreter.machine
    script,          \* the expression last handed to Interpreter::evaluate
    answer,          \* what that call returned: [st, tv]
    before,          \* Interpreter.machine when that call started
    rows,            \* the backing store of the dataframe: one entry per row id, tombstones included
    verb,            \* the dataframe operation last run, with its arguments
    ret,             \* what it returned
    prev             \* the backing store when it started

vars == <<overflow_checks, lhs, rhs, binop, out, machine, script, answer, before,
          rows, verb, ret, prev>>

(***************************************************************************)
(* Bounds of the model                                                     *)
(***************************************************************************)
MaxRows == 3        \* rows a table holds at most
MaxInt == 6         \* largest integer an interpreter variable may hold
MaxLen == 4         \* longest string handed to a platform function, in characters
MaxArgs == 4        \* longest argument list handed to a platform function
MaxStack == 2       \* values a machine's stack holds at most
MaxScopedRows == 2  \* rows the table holds at most when the verbs take a caller's machine
MaxMessages == 3    \* frames the clients of the WebSocket server send at most, in all
MaxTokens == 3      \* tokens a token slice holds at most

(***************************************************************************)
(* TypedValue (typed_values.rs:21-38).  A value is [t, v]: the variant and *)
(* its payload.  A float payload is <<n, d>>: the rational n/d with d > 0, *)
(* or d = 0 for +inf (n = 1), -inf (n = -1) and NaN (n = 0).               *)
(***************************************************************************)
Undefined == [t |-> "Undefined", v |-> 0]
Null == [t |-> "Null", v |-> 0]
Boolean(b) == [t |-> "Boolean", v |-> b]
Int8Value(n) == [t |-> "Int8Value", v |-> n]
Int16Value(n) == [t |-> "Int16Value", v |-> n]
Int32Value(n) == [t |-> "Int32Value", v |-> n]
Int64Value(n) == [t |-> "Int64Value", v |-> n]
Float32Value(q) == [t |-> "Float32Value", v |-> q]
Float64Value(q) == [t |-> "Float64Value", v |-> q]
StringValue(s) == [t |-> "StringValue", v |-> s]
Array(vs) == [t |-> "Array", v |-> vs]
ArrayOfRows(rs) == [t |-> "ArrayOfRows", v |-> rs]

\* Option::None of an Option<TypedValue>
NoneValue == [t |-> "None", v |-> 0]
\* the outcome of an operator whose evaluation panics (the thread unwinds, no value is produced)
Panicked == [t |-> "panic!", v |-> 0]

IntKinds == {"Int8Value", "Int16Value", "Int32Value", "Int64Value"}
FloatKinds == {"Float32Value", "Float64Value"}

\* Int8Value(u8), Int16Value(i16), Int32Value(i32)
U8Max == 255
I16Max == 32767
I32Max == 2147483647

\* i64 exceeds the integers TLC computes with: every integer of the model fits an i64
MinOf(t) ==
    CASE t = "Int8Value" -> 0
      [] t = "Int16Value" -> 0 - I16Max - 1
      [] t = "Int32Value" -> 0 - I32Max - 1
MaxOf(t) ==
    CASE t = "Int8Value" -> U8Max
      [] t = "Int16Value" -> I16Max
      [] t = "Int32Value" -> I32Max
Fits(t, n) == t = "Int64Value" \/ (MinOf(t) <= n /\ n <= MaxOf(t))

\* two's complement wrap-around of a result that does not fit (release build)
Wrap(t, n) ==
    LET m == MaxOf(t) - MinOf(t) + 1
    IN  ((n - MinOf(t)) % m) + MinOf(t)

Abs(n) == IF n < 0 THEN 0 - n ELSE n
Sign(n) == IF n < 0 THEN 0 - 1 ELSE IF n > 0 THEN 1 ELSE 0

\* Rust's integer division truncates toward zero
TruncDiv(x, y) == Sign(x) * Sign(y) * (Abs(x) \div Abs(y))

RECURSIVE Gcd(_, _)
Gcd(a, b) == IF b = 0 THEN a ELSE Gcd(b, a % b)

\* a float from a numerator and a non-zero denominator, in lowest terms
Ratio(n, d) ==
    LET g == Gcd(Abs(n), Abs(d))
    IN  <<Sign(d) * (n \div g), Abs(d) \div g>>

PosInf == <<1, 0>>
NegInf == <<0 - 1, 0>>
NaN == <<0, 0>>
IsNaN(q) == q = NaN
IsInf(q) == q[2] = 0 /\ q[1] # 0

\* IEEE-754 arithmetic on the floats above
FloatAdd(p, q) ==
    IF IsNaN(p) \/ IsNaN(q) THEN NaN
    ELSE IF IsInf(p) /\ IsInf(q) THEN (IF p = q THEN p ELSE NaN)
    ELSE IF IsInf(p) THEN p
    ELSE IF IsInf(q) THEN q
    ELSE Ratio(p[1] * q[2] + q[1] * p[2], p[2] * q[2])
FloatNeg(q) == <<0 - q[1], q[2]>>
FloatSub(p, q) == FloatAdd(p, FloatNeg(q))
FloatMul(p, q) ==
    IF IsNaN(p) \/ IsNaN(q) THEN NaN
    ELSE IF IsInf(p) \/ IsInf(q)
         THEN (IF p[1] = 0 \/ q[1] = 0 THEN NaN ELSE <<Sign(p[1]) * Sign(q[1]), 0>>)
    ELSE Ratio(p[1] * q[1], p[2] * q[2])
FloatDiv(p, q) ==
    IF IsNaN(p) \/ IsNaN(q) THEN NaN
    ELSE IF IsInf(p) THEN (IF IsInf(q) THEN NaN ELSE <<p[1] * (IF q[1] < 0 THEN 0 - 1 ELSE 1), 0>>)
    ELSE IF IsInf(q) THEN <<0, 1>>
    ELSE IF q[1] = 0 THEN <<Sign(p[1]), 0>>
    ELSE Ratio(p[1] * q[2], p[2] * q[1])

\* a + b, a - b, a * b, a / b on two integers of the same kind t
IntArith(t, op, x, y, chk) ==
    IF op = "/" /\ y = 0 THEN Panicked                    \* attempt to divide by zero
    ELSE LET n == CASE op = "+" -> x + y
                     [] op = "-" -> x - y
                     [] op = "*" -> x * y
                     [] op = "/" -> TruncDiv(x, y)
         IN  IF Fits(t, n) THEN [t |-> t, v |-> n]
             ELSE IF chk \/ op = "/" THEN Panicked        \* attempt to ... with overflow
             ELSE [t |-> t, v |-> Wrap(t, n)]

FloatArith(t, op, p, q) ==
    [t |-> t, v |-> CASE op = "+" -> FloatAdd(p, q)
                      [] op = "-" -> FloatSub(p, q)
                      [] op = "*" -> FloatMul(p, q)
                      [] op = "/" -> FloatDiv(p, q)]

\* a variant that tests for Null before Undefined
intercept_unknowns_null_first(a, b) ==
    IF a = Null THEN Null
    ELSE IF b = Null THEN Null
    ELSE IF a = Undefined THEN Undefined
    ELSE IF b = Undefined THEN Undefined
    ELSE NoneValue

intercept_unknowns(a, b) ==
    IF a = Undefined THEN Undefined
    ELSE IF b = Undefined THEN Undefined
    ELSE IF a = Null THEN Null
    ELSE IF b = Null THEN Null
    ELSE NoneValue

\* a variant that widens an integer paired with a float to f64
NumericArms_widening(op, a, b, chk) ==
    IF a.t = b.t /\ a.t \in FloatKinds THEN FloatArith(a.t, op, a.v, b.v)
    ELSE IF a.t = b.t /\ a.t \in IntKinds THEN IntArith(a.t, op, a.v, b.v, chk)
    ELSE IF a.t \in IntKinds /\ b.t \in FloatKinds
    THEN FloatArith("Float64Value", op, <<a.v, 1>>, b.v)
    ELSE IF a.t \in FloatKinds /\ b.t \in IntKinds
    THEN FloatArith("Float64Value", op, a.v, <<b.v, 1>>)
    ELSE Undefined

\* the match arms shared by Add, Div, Mul and Sub
NumericArms(op, a, b, chk) ==
    IF a.t = b.t /\ a.t \in FloatKinds THEN FloatArith(a.t, op, a.v, b.v)
    ELSE IF a.t = b.t /\ a.t \in IntKinds THEN IntArith(a.t, op, a.v, b.v, chk)
    ELSE Undefined

\* unwrap_or evaluates its argument first: the arms run even when an unknown is intercepted
UnwrapOr(opt, arms) ==
    IF arms = Panicked THEN Panicked
    ELSE IF opt # NoneValue THEN opt ELSE arms

Add(a, b, chk) ==
    UnwrapOr(intercept_unknowns(a, b),
             IF a.t = "StringValue" /\ b.t = "StringValue" THEN StringValue(a.v \o b.v)
             ELSE NumericArms("+", a, b, chk))
Div(a, b, chk) == UnwrapOr(intercept_unknowns(a, b), NumericArms("/", a, b, chk))
Mul(a, b, chk) == UnwrapOr(intercept_unknowns(a, b), NumericArms("*", a, b, chk))
Sub(a, b, chk) == UnwrapOr(intercept_unknowns(a, b), NumericArms("-", a, b, chk))

\* #[derive(PartialEq)]: same variant and equal payloads; a NaN is not equal to itself
ValueEq(a, b) ==
    /\ a = b
    /\ ~(a.t \in FloatKinds /\ IsNaN(a.v))

assume_bool(a) == IF a.t = "Boolean" THEN a ELSE NoneValue
and(a, b) ==
    IF assume_bool(a) = NoneValue \/ assume_bool(b) = NoneValue THEN NoneValue
    ELSE Boolean(a.v /\ b.v)
or(a, b) ==
    IF assume_bool(a) = NoneValue \/ assume_bool(b) = NoneValue THEN NoneValue
    ELSE Boolean(a.v \/ b.v)

\* self.between(lhs, rhs): None unless all three are numeric
between(self, l, r) ==
    IF ~(self.t \in FloatKinds \cup IntKinds /\ l.t \in FloatKinds \cup IntKinds
            /\ r.t \in FloatKinds \cup IntKinds)
    THEN NoneValue
    ELSE LET c == IF self.t \in FloatKinds THEN self.v ELSE <<self.v, 1>>
             b == IF l.t \in FloatKinds THEN l.v ELSE <<l.v, 1>>
             a == IF r.t \in FloatKinds THEN r.v ELSE <<r.v, 1>>
         IN  Boolean(c[1] * a[2] >= a[1] * c[2] /\ c[1] * b[2] <= b[1] * c[2])

(***************************************************************************)
(* Ordering of typed values (the PartialOrd the evaluator's <, <=, >, >=   *)
(* use): both sides are coerced to floating point; strings are ordered     *)
(* lexicographically; any other pair is unordered.                         *)
(***************************************************************************)
\* the strings of the model, in lexicographic order
StringOrder == <<"", "AMEX", "NYSE", "OTC">>
StringRank(s) == CHOOSE i \in 1..Len(StringOrder) : StringOrder[i] = s

\* Some(the value as an f64) for the numeric variants, None for the others
IsNumeric(a) == a.t \in FloatKinds \cup IntKinds
assume_numeric(a) == IF a.t \in FloatKinds THEN a.v ELSE <<a.v, 1>>

FloatCmp(p, q) ==
    IF IsNaN(p) \/ IsNaN(q) THEN "None"
    ELSE IF p = q THEN "Equal"
    ELSE IF p = PosInf \/ q = NegInf THEN "Greater"
    ELSE IF p = NegInf \/ q = PosInf THEN "Less"
    ELSE IF p[1] * q[2] < q[1] * p[2] THEN "Less"
    ELSE IF p[1] * q[2] > q[1] * p[2] THEN "Greater"
    ELSE "Equal"

partial_cmp(a, b) ==
    IF IsNumeric(a) /\ IsNumeric(b)
    THEN FloatCmp(assume_numeric(a), assume_numeric(b))
    ELSE IF a.t = "StringValue" /\ b.t = "StringValue"
    THEN (IF StringRank(a.v) < StringRank(b.v) THEN "Less"
          ELSE IF StringRank(a.v) > StringRank(b.v) THEN "Greater" ELSE "Equal")
    ELSE "None"

(***************************************************************************)
(* Expression trees (the nodes MachineState::evaluate matches on)          *)
(***************************************************************************)
Literal(value) == [node |-> "Literal", value |-> value]
Variable(name) == [node |-> "Variable", name |-> name]
SetVariable(name, e) == [node |-> "SetVariable", name |-> name, e |-> e]
Binary(node, a, b) == [node |-> node, a |-> a, b |-> b]
Between(a, b, c) == [node |-> "Between", a |-> a, b |-> b, c |-> c]
CodeBlock(ops) == [node |-> "CodeBlock", ops |-> ops]
Tuple(values) == [node |-> "Tuple", values |-> values]
\* Select { fields, from, condition, .., limit }: from, condition and limit are NoneValue
\* when absent (group_by, having and order_by are not read by the evaluator)
Select(fields, from, condition, limit) ==
    [node |-> "Select", fields |-> fields, from |-> from, condition |-> condition,
     limit |-> limit]
\* Delete { table, condition, limit }: condition and limit are NoneValue when absent
Delete(table, condition, limit) ==
    [node |-> "Delete", table |-> table, condition |-> condition, limit |-> limit]
\* a node evaluate has no arm for (If, While, FunctionCall, ...)
Unhandled(tag) == [node |-> "Unhandled", tag |-> tag]

ArithmeticNodes == {"Plus", "Minus", "Multiply", "Divide"}
ComparisonNodes == {"Equal", "NotEqual", "LessThan", "LessOrEqual", "GreaterThan", "GreaterOrEqual"}
LogicNodes == {"And", "Or"}
BinaryNodes == ArithmeticNodes \cup ComparisonNodes \cup LogicNodes

(***************************************************************************)
(* MachineState (machine.rs)                                               *)
(***************************************************************************)
\* HashMap<String, TypedValue>: a function from the names bound to their values
EmptyMap == [n \in {} |-> Undefined]

\* MachineState::new
new == [stack |-> <<>>, variables |-> EmptyMap]

get(ms, name) ==
    IF name \in DOMAIN ms.variables THEN ms.variables[name] ELSE NoneValue

unwrap_or(opt, default) == IF opt = NoneValue THEN default ELSE opt

set(ms, name, value) ==
    [stack |-> ms.stack,
     variables |-> [n \in (DOMAIN ms.variables) \cup {name} |->
                        IF n = name THEN value ELSE ms.variables[n]]]

with_variable(ms, name, value) ==
    [stack |-> ms.stack,
     variables |-> [n \in (DOMAIN ms.variables) \cup {name} |->
                        IF n = name THEN value ELSE ms.variables[n]]]

\* a variant of push that returns a machine without the variables
push_dropping_variables(ms, value) == [stack |-> Append(ms.stack, value), variables |-> EmptyMap]

push(ms, value) == [stack |-> Append(ms.stack, value), variables |-> ms.variables]

pop(ms) ==
    IF ms.stack = <<>> THEN [ms |-> ms, value |-> NoneValue]
    ELSE [ms |-> [stack |-> SubSeq(ms.stack, 1, Len(ms.stack) - 1), variables |-> ms.variables],
          value |-> ms.stack[Len(ms.stack)]]

pop_or(ms, default_value) ==
    [ms |-> pop(ms).ms, value |-> unwrap_or(pop(ms).value, default_value)]

\* the fold of push_all over values[k..]
RECURSIVE push_all_from(_, _, _)
push_all_from(ms, values, k) ==
    IF k > Len(values) THEN ms ELSE push_all_from(push(ms, values[k]), values, k + 1)

\* a variant of push_all that pushes the values from the last one down
push_all_reversed(ms, values) ==
    push_all_from(ms, [k \in 1..Len(values) |-> values[Len(values) + 1 - k]], 1)

push_all(ms, values) == push_all_from(ms, values, 1)

\* io::Result<(MachineState, TypedValue)>: Ok((ms, tv)), Err(message), or a panic
Ok(ms, tv) == [st |-> "Ok", ms |-> ms, tv |-> tv]
fail(ms, message) == [st |-> "Err", ms |-> ms, tv |-> [t |-> "io::Error", v |-> message]]
Panic(ms) == [st |-> "Panic", ms |-> ms, tv |-> Panicked]

\* the closures evaluate hands to expand2
ApplyBinary(node, aa, bb, chk) ==
    CASE node = "And" -> unwrap_or(and(aa, bb), Undefined)
      [] node = "Divide" -> Div(aa, bb, chk)
      [] node = "Equal" -> Boolean(ValueEq(aa, bb))
      [] node = "GreaterThan" -> Boolean(partial_cmp(aa, bb) = "Greater")
      [] node = "GreaterOrEqual" -> Boolean(partial_cmp(aa, bb) \in {"Greater", "Equal"})
      [] node = "LessThan" -> Boolean(partial_cmp(aa, bb) = "Less")
      [] node = "LessOrEqual" -> Boolean(partial_cmp(aa, bb) \in {"Less", "Equal"})
      [] node = "Minus" -> Sub(aa, bb, chk)
      [] node = "Multiply" -> Mul(aa, bb, chk)
      [] node = "NotEqual" -> Boolean(~ValueEq(aa, bb))
      [] node = "Or" -> unwrap_or(or(aa, bb), Undefined)
      [] node = "Plus" -> Add(aa, bb, chk)

\* Ok((ms, f(aa, bb))), or the panic raised inside f
Applied(ms, tv) == IF tv = Panicked THEN Panic(ms) ELSE Ok(ms, tv)

RECURSIVE evaluate(_, _, _)
RECURSIVE evaluate_all_from(_, _, _, _)
RECURSIVE evaluate_array_from(_, _, _, _)
RECURSIVE expand(_, _, _)
RECURSIVE expand3(_, _, _, _, _)
RECURSIVE sql_delete(_, _, _, _, _)
RECURSIVE sql_select(_, _, _, _, _, _)
RECURSIVE filter_rows_from(_, _, _, _, _, _)
RECURSIVE is_true(_, _, _, _)

\* the fold of evaluate_all over ops[i..], from the accumulator acc
evaluate_all_from(acc, ops, i, chk) ==
    IF i > Len(ops) \/ acc.st = "Panic" THEN acc
    ELSE LET r == evaluate(acc.ms, ops[i], chk)
         IN  evaluate_all_from(IF r.st = "Ok" THEN r ELSE Panic(acc.ms), ops, i + 1, chk)

\* a variant of evaluate_all that evaluates every operation on the initial machine
evaluate_all_unthreaded(ms, ops, chk) ==
    IF ops = <<>> THEN Ok(ms, Undefined) ELSE evaluate(ms, ops[Len(ops)], chk)

evaluate_all(ms, ops, chk) == evaluate_all_from(Ok(ms, Undefined), ops, 1, chk)

\* the fold of evaluate_array over ops[i..], from the accumulator acc
evaluate_array_from(acc, ops, i, chk) ==
    IF i > Len(ops) \/ acc.st = "Panic" THEN acc
    ELSE LET r == evaluate(acc.ms, ops[i], chk)
         IN  evaluate_array_from(IF r.st = "Ok" THEN Ok(r.ms, Append(acc.tv, r.tv))
                                 ELSE Panic(acc.ms), ops, i + 1, chk)

evaluate_array(ms, ops, chk) ==
    LET r == evaluate_array_from(Ok(ms, <<>>), ops, 1, chk)
    IN  IF r.st = "Ok" THEN Ok(r.ms, Array(r.tv)) ELSE r

expand2(ms, a, b, node, chk) ==
    LET ra == evaluate(ms, a, chk)
    IN  IF ra.st # "Ok" THEN ra
        ELSE LET rb == evaluate(ra.ms, b, chk)
             IN  IF rb.st # "Ok" THEN rb
                 ELSE Applied(rb.ms, ApplyBinary(node, ra.tv, rb.tv, chk))

\* Ok((ms, Boolean((aa >= bb) && (aa <= cc)))) of the three operands, evaluated in order
expand3(ms, a, b, c, chk) ==
    LET ra == evaluate(ms, a, chk)
    IN  IF ra.st # "Ok" THEN ra
        ELSE LET rb == evaluate(ra.ms, b, chk)
             IN  IF rb.st # "Ok" THEN rb
                 ELSE LET rc == evaluate(rb.ms, c, chk)
                      IN  IF rc.st # "Ok" THEN rc
                          ELSE Ok(rc.ms,
                                  Boolean(partial_cmp(ra.tv, rb.tv) \in {"Greater", "Equal"}
                                          /\ partial_cmp(ra.tv, rc.tv) \in {"Less", "Equal"}))

\* the value of an optional expression: Undefined when it is absent
expand(ms, expr, chk) ==
    IF expr = NoneValue THEN Ok(ms, Undefined) ELSE evaluate(ms, expr, chk)

\* the limit and the table are evaluated; no value of the table is deleted from
sql_delete(ms, from, condition, limit, chk) ==
    LET rl == expand(ms, limit, chk)
    IN  IF rl.st # "Ok" THEN rl
        ELSE LET rf == expand(rl.ms, from, chk)
             IN  IF rf.st # "Ok" THEN rf
                 ELSE fail(rf.ms, "Type mismatch: expected an iterable")

\* the loop of filter_rows! over rows[k..]: the rows for which the condition is true
filter_rows_from(ms, condition, rs, k, acc, chk) ==
    IF k > Len(rs) THEN acc
    ELSE filter_rows_from(ms, condition, rs, k + 1,
                          IF is_true(ms, rs[k], condition, chk) THEN Append(acc, rs[k]) ELSE acc,
                          chk)

\* a variant of filter_rows_in_memory that returns the machine with the bindings of
\* the last row
filter_rows_in_memory_leaking(ms, condition, rs, limit, chk) ==
    Ok(IF rs = <<>> THEN ms
       ELSE [stack |-> ms.stack,
             variables |-> [n \in (DOMAIN ms.variables) \cup {"symbol", "exchange"} |->
                              IF n = "symbol" THEN rs[Len(rs)].fields[1]
                              ELSE IF n = "exchange" THEN rs[Len(rs)].fields[2]
                              ELSE ms.variables[n]]],
       ArrayOfRows(filter_rows_from(ms, condition, rs, 1, <<>>, chk)))

\* the rows of rs for which the condition is true, with the machine it was called on;
\* the limit is not read
filter_rows_in_memory(ms, condition, rs, limit, chk) ==
    Ok(ms, ArrayOfRows(filter_rows_from(ms, condition, rs, 1, <<>>, chk)))

\* a variant of sql_select that returns every row of the source
sql_select_unfiltered(ms, fields, from, condition, limit, chk) ==
    filter_rows_in_memory(ms, NoneValue, expand(ms, from, chk).tv.v, Undefined, chk)

sql_select(ms, fields, from, condition, limit, chk) ==
    LET rl == expand(ms, limit, chk)
    IN  IF rl.st # "Ok" THEN rl
        ELSE IF from = NoneValue THEN evaluate_array(rl.ms, fields, chk)
        ELSE IF from.node = "Ns" THEN Ok(rl.ms, Undefined)
        ELSE LET rf == expand(rl.ms, from, chk)
             IN  IF rf.st # "Ok" THEN rf
                 ELSE IF rf.tv = Undefined THEN evaluate_array(rf.ms, fields, chk)
                 ELSE IF rf.tv.t = "ArrayOfRows"
                 THEN filter_rows_in_memory(rf.ms, condition, rf.tv.v, rl.tv, chk)
                 ELSE fail(rf.ms, "Type mismatch: expected an iterable")

evaluate(ms, expression, chk) ==
    CASE expression.node \in BinaryNodes ->
            expand2(ms, expression.a, expression.b, expression.node, chk)
      [] expression.node = "Between" ->
            expand3(ms, expression.a, expression.b, expression.c, chk)
      [] expression.node = "CodeBlock" -> evaluate_all(ms, expression.ops, chk)
      [] expression.node = "Delete" ->
            sql_delete(ms, expression.table, expression.condition, expression.limit, chk)
      [] expression.node = "Literal" -> Ok(ms, expression.value)
      [] expression.node = "Select" ->
            sql_select(ms, expression.fields, expression.from, expression.condition,
                       expression.limit, chk)
      [] expression.node = "SetVariable" ->
            LET r == evaluate(ms, expression.e, chk)
            IN  IF r.st # "Ok" THEN r
                ELSE Ok(set(r.ms, expression.name, r.tv), Undefined)
      [] expression.node = "Tuple" -> evaluate_array(ms, expression.values, chk)
      [] expression.node = "Variable" ->
            Ok(ms, unwrap_or(get(ms, expression.name), Undefined))
      [] OTHER -> fail(ms, "Unhandled expression")


(***************************************************************************)
(* Rows and the row collection behind a dataframe.  A row of the backing   *)
(* store is [id, active, fields]: the row id, the allocated bit of its     *)
(* metadata and its field values; row id k is entry k + 1 of the store.    *)
(***************************************************************************)
Columns == <<"symbol", "exchange">>

RowsAffected(n) == [t |-> "RowsAffected", v |-> n]
ErrorValue(message) == [t |-> "ErrorValue", v |-> message]
NamespaceValue(ns) == [t |-> "NamespaceValue", v |-> ns]
TableValue(rc) == [t |-> "TableValue", v |-> rc]

len(rc) == Len(rc)

\* (Row, RowMetadata) of a row id, tombstoned or not
read_row(rc, id) ==
    [row |-> [id |-> rc[id + 1].id, fields |-> rc[id + 1].fields],
     metadata |-> [is_allocated |-> rc[id + 1].active]]

\* Some(row) when the row is active, None when it is tombstoned
read_one(rc, id) ==
    IF rc[id + 1].active THEN read_row(rc, id).row ELSE NoneValue

\* the rows a cursor over the collection returns: the active ones, by ascending id
read_active_rows(rc) ==
    LET act == SelectSeq(rc, LAMBDA r : r.active)
    IN  [k \in 1..Len(act) |-> [id |-> act[k].id, fields |-> act[k].fields]]

append_row(rc, fields) ==
    [rc |-> Append(rc, [id |-> Len(rc), active |-> TRUE, fields |-> fields]),
     value |-> RowsAffected(1)]

\* clears the allocated bit; deleting a tombstoned row is a no-op returning 0
delete_row(rc, id) ==
    IF rc[id + 1].active
    THEN [rc |-> [rc EXCEPT ![id + 1].active = FALSE], value |-> RowsAffected(1)]
    ELSE [rc |-> rc, value |-> RowsAffected(0)]

\* sets the allocated bit
undelete_row(rc, id) ==
    IF rc[id + 1].active
    THEN [rc |-> rc, value |-> RowsAffected(0)]
    ELSE [rc |-> [rc EXCEPT ![id + 1].active = TRUE], value |-> RowsAffected(1)]

resize(rc, new_size) == SubSeq(rc, 1, new_size)

Min(a, b) == IF a < b THEN a ELSE b

\* the row ids a verb visits: all of them for limit Undefined, the first n for a number
get_indices_with_limit(rc, limit) ==
    LET n == IF limit = Undefined THEN Len(rc) ELSE Min(limit.v, Len(rc))
    IN  [k \in 1..n |-> k - 1]

\* the last active row id in from..to - 1, or -1
LastActive(rc, from, to) ==
    LET ids == {i \in from..(to - 1) : rc[i + 1].active}
    IN  IF ids = {} THEN 0 - 1 ELSE CHOOSE i \in ids : \A j \in ids : j <= i

\* compaction in place: a tombstoned slot is refilled with the last active row of the
\* store, which takes the id of the slot; the store is then cut after the last row kept
\* (ids 1, 3, 5 active of 0..6 become 0 <- 5, 1, 2 <- 3, as the tests expect)
RECURSIVE compact_from(_, _, _, _)
compact_from(rc, row_id, eof, moved) ==
    IF row_id >= eof THEN [rc |-> resize(rc, eof), value |-> RowsAffected(moved)]
    ELSE IF rc[row_id + 1].active THEN compact_from(rc, row_id + 1, eof, moved)
    ELSE LET last == LastActive(rc, row_id + 1, eof)
         IN  IF last < 0 THEN [rc |-> resize(rc, row_id), value |-> RowsAffected(moved)]
             ELSE compact_from(
                    [rc EXCEPT ![row_id + 1] =
                                    [id |-> row_id, active |-> TRUE, fields |-> rc[last + 1].fields],
                               ![last + 1].active = FALSE],
                    row_id + 1, last, moved + 1)

compact(rc) == compact_from(rc, 0, Len(rc), 0)

(***************************************************************************)
(* Row-scoped evaluation (machine.rs) and the dataframe verbs              *)
(* (dataframe.rs)                                                          *)
(***************************************************************************)
\* the fold of with_row over the (field, column) pairs k..
RECURSIVE with_row_from(_, _, _)
with_row_from(ms, row, k) ==
    IF k > Len(Columns) THEN ms
    ELSE with_row_from(with_variable(ms, Columns[k], row.fields[k]), row, k + 1)

with_row(ms, row) == with_row_from(ms, row, 1)

\* a variant of is_true that takes every value but Boolean(false) for true
is_true_lenient(ms, row, condition, chk) ==
    \/ condition = NoneValue
    \/ /\ condition # NoneValue
       /\ LET r == evaluate(with_row(ms, row), condition, chk)
          IN  r.st = "Ok" /\ r.tv # Boolean(FALSE)

\* a missing condition is true; a condition is true when it evaluates to Boolean(true)
\* in the scope of the row; an evaluation error is logged and counts as false
is_true(ms, row, condition, chk) ==
    \/ condition = NoneValue
    \/ /\ condition # NoneValue
       /\ LET r == evaluate(with_row(ms, row), condition, chk)
          IN  r.st = "Ok" /\ r.tv = Boolean(TRUE)

\* the loop of delete_where over ids[k..]
RECURSIVE delete_where_from(_, _, _, _, _, _, _)
delete_where_from(df, deleted, ids, k, ms, condition, chk) ==
    IF k > Len(ids) THEN [rc |-> df, value |-> RowsAffected(deleted)]
    ELSE LET id == ids[k]
             row == read_one(df, id)
         IN  IF row # NoneValue /\ is_true(ms, row, condition, chk)
             THEN LET d == delete_row(df, id)
                  IN  delete_where_from(d.rc, deleted + d.value.v, ids, k + 1, ms, condition, chk)
             ELSE delete_where_from(df, deleted, ids, k + 1, ms, condition, chk)

\* a variant of delete_where that stops after the first row id
delete_where_first_only(df, ms, condition, limit, chk) ==
    delete_where_from(df, 0, SubSeq(get_indices_with_limit(df, limit), 1, Min(1, Len(df))), 1,
                      ms, condition, chk)

\* a variant of delete_where that counts every row id it visits
delete_where_counting_visits(df, ms, condition, limit, chk) ==
    [rc |-> delete_where_from(df, 0, get_indices_with_limit(df, limit), 1, ms, condition,
                              chk).rc,
     value |-> RowsAffected(Len(get_indices_with_limit(df, limit)))]

delete_where(df, ms, condition, limit, chk) ==
    delete_where_from(df, 0, get_indices_with_limit(df, limit), 1, ms, condition, chk)

\* a variant of undelete_where that restores nothing
undelete_where_idle(df, ms, condition, limit, chk) ==
    [rc |-> df, value |-> RowsAffected(0)]

\* the loop of undelete_where over ids[k..]
RECURSIVE undelete_where_from(_, _, _, _, _, _, _)
undelete_where_from(df, restored, ids, k, ms, condition, chk) ==
    IF k > Len(ids) THEN [rc |-> df, value |-> RowsAffected(restored)]
    ELSE LET id == ids[k]
             rm == read_row(df, id)
         IN  IF ~rm.metadata.is_allocated /\ is_true(ms, rm.row, condition, chk)
             THEN LET u == undelete_row(df, id)
                  IN  undelete_where_from(u.rc,
                          IF u.value.t # "ErrorValue" THEN restored + 1 ELSE restored,
                          ids, k + 1, ms, condition, chk)
             ELSE undelete_where_from(df, restored, ids, k + 1, ms, condition, chk)

\* a variant of undelete_where that restores every tombstoned row it visits
undelete_where_any(df, ms, condition, limit, chk) ==
    undelete_where_from(df, 0, get_indices_with_limit(df, limit), 1, ms, NoneValue, chk)

undelete_where(df, ms, condition, limit, chk) ==
    undelete_where_from(df, 0, get_indices_with_limit(df, limit), 1, ms, condition, chk)

\* Result of a verb that may fail: Ok with the count, Err with the error, or a panic;
\* rc is the backing store as the verb leaves it
Done(rc, value) == [st |-> "Ok", rc |-> rc, value |-> value]
Failed(rc, message) == [st |-> "Err", rc |-> rc, value |-> [t |-> "io::Error", v |-> message]]
Aborted(rc) == [st |-> "Panic", rc |-> rc, value |-> Panicked]

\* the field expressions as column names: every one has to be a variable reference
evaluate_as_atoms(ms, fields) ==
    IF \A i \in DOMAIN fields : fields[i].node = "Variable"
    THEN Ok(ms, [i \in DOMAIN fields |-> fields[i].name])
    ELSE fail(ms, "Expected a column")

\* the row with the named columns set to the values, the other columns retained;
\* NoneValue when a name is no column or the values do not pair up with the names
transform(row, field_names, values) ==
    IF Len(field_names) # Len(values)
       \/ \E i \in DOMAIN field_names : \A k \in DOMAIN Columns : Columns[k] # field_names[i]
    THEN NoneValue
    ELSE [id |-> row.id,
          fields |-> [k \in DOMAIN Columns |->
                        IF \E i \in DOMAIN field_names : field_names[i] = Columns[k]
                        THEN values[CHOOSE i \in DOMAIN field_names :
                                        /\ field_names[i] = Columns[k]
                                        /\ \A j \in DOMAIN field_names :
                                              field_names[j] = Columns[k] => j <= i]
                        ELSE row.fields[k]]]

\* writes the row image at the row id; the row is active afterwards
overwrite_row(rc, id, row) ==
    [rc |-> [rc EXCEPT ![id + 1] = [id |-> id, active |-> TRUE, fields |-> row.fields]],
     value |-> RowsAffected(1)]

\* the loop of overwrite_where over ids[k..]
RECURSIVE overwrite_where_from(_, _, _, _, _, _, _, _, _)
overwrite_where_from(df, overwritten, ids, k, ms, fields, values, condition, chk) ==
    IF k > Len(ids) THEN Done(df, RowsAffected(overwritten))
    ELSE LET id == ids[k]
             row == read_one(df, id)
         IN  IF row # NoneValue /\ is_true(ms, row, condition, chk)
             THEN LET a == evaluate_as_atoms(with_row(ms, row), fields)
                      v == evaluate_array(a.ms, values, chk)
                  IN  IF a.st # "Ok" THEN Failed(df, a.tv.v)
                      ELSE IF v.st # "Ok" THEN Aborted(df)
                      ELSE IF v.tv.t # "Array"
                      THEN overwrite_where_from(df, overwritten, ids, k + 1, ms, fields,
                                                values, condition, chk)
                      ELSE IF transform(row, a.tv, v.tv.v) = NoneValue
                      THEN Failed(df, "Mismatched fields")
                      ELSE CHOOSE r \in
                              {overwrite_where_from(w.rc, overwritten + w.value.v, ids, k + 1,
                                                    ms, fields, values, condition, chk) :
                                 w \in {overwrite_row(df, row.id,
                                                      transform(row, a.tv, v.tv.v))}} : TRUE
             ELSE overwrite_where_from(df, overwritten, ids, k + 1, ms, fields, values,
                                       condition, chk)

overwrite_where(df, ms, fields, values, condition, limit, chk) ==
    overwrite_where_from(df, 0, get_indices_with_limit(df, limit), 1, ms, fields, values,
                         condition, chk)

\* the loop of update_where over ids[k..]
RECURSIVE update_where_from(_, _, _, _, _, _, _, _, _)
update_where_from(rc, updated, ids, k, ms, fields, values, condition, chk) ==
    IF k > Len(ids) THEN Done(rc, RowsAffected(updated))
    ELSE LET id == ids[k]
             row == read_one(rc, id)
         IN  IF row # NoneValue /\ is_true(ms, row, condition, chk)
             THEN LET a == evaluate_as_atoms(with_row(ms, row), fields)
                      v == evaluate_array(a.ms, values, chk)
                  IN  IF a.st # "Ok" THEN Failed(rc, a.tv.v)
                      ELSE IF v.st # "Ok" THEN Aborted(rc)
                      ELSE IF v.tv.t # "Array"
                      THEN update_where_from(rc, updated, ids, k + 1, ms, fields, values,
                                             condition, chk)
                      ELSE IF transform(row, a.tv, v.tv.v) = NoneValue
                      THEN Failed(rc, "Mismatched fields")
                      ELSE CHOOSE r \in
                              {update_where_from(w.rc,
                                    IF w.value.t # "ErrorValue" THEN updated + 1 ELSE updated,
                                    ids, k + 1, ms, fields, values, condition, chk) :
                                 w \in {overwrite_row(rc, id,
                                                      transform(row, a.tv, v.tv.v))}} : TRUE
             ELSE update_where_from(rc, updated, ids, k + 1, ms, fields, values, condition, chk)

\* a variant of update_where that takes every active row it visits for a match
update_where_any(rc, ms, fields, values, condition, limit, chk) ==
    update_where_from(rc, 0, get_indices_with_limit(rc, limit), 1, ms, fields, values,
                      NoneValue, chk)

update_where(rc, ms, fields, values, condition, limit, chk) ==
    update_where_from(rc, 0, get_indices_with_limit(rc, limit), 1, ms, fields, values,
                      condition, chk)

\* the namespace the stored table lives under; opening any other namespace fails
Namespace == "compact.stocks"
FileRowCollection_open(ns) == ns = Namespace

\* a variant of tools::compact that compacts an owned copy of the stored table too
do_tools_compact_on_copy(store, table) ==
    CASE table.t = "ErrorValue" -> [rc |-> store, value |-> table]
      [] table.t = "NamespaceValue" ->
            IF FileRowCollection_open(table.v)
            THEN [rc |-> store, value |-> compact(store).value]
            ELSE [rc |-> store, value |-> ErrorValue("Exact")]
      [] table.t = "TableValue" -> [rc |-> store, value |-> compact(table.v).value]
      [] OTHER -> [rc |-> store, value |-> ErrorValue("CollectionExpected")]

\* a variant of tools::compact that cuts the stored table down to the number of its
\* active rows without moving any row
do_tools_compact_truncating(store, table) ==
    CASE table.t = "ErrorValue" -> [rc |-> store, value |-> table]
      [] table.t = "NamespaceValue" ->
            IF FileRowCollection_open(table.v)
            THEN [rc |-> resize(store, Len(SelectSeq(store, LAMBDA r : r.active))),
                  value |-> compact(store).value]
            ELSE [rc |-> store, value |-> ErrorValue("Exact")]
      [] table.t = "TableValue" -> [rc |-> store, value |-> compact(table.v).value]
      [] OTHER -> [rc |-> store, value |-> ErrorValue("CollectionExpected")]

\* tools::compact(table): the table stored under a namespace is opened and compacted in
\* place; a table value is compacted as an owned copy, which is then dropped
do_tools_compact(store, table) ==
    CASE table.t = "ErrorValue" -> [rc |-> store, value |-> table]
      [] table.t = "NamespaceValue" ->
            IF FileRowCollection_open(table.v)
            THEN compact(store)
            ELSE [rc |-> store, value |-> ErrorValue("Exact")]
      [] table.t = "TableValue" -> [rc |-> store, value |-> compact(table.v).value]
      [] OTHER -> [rc |-> store, value |-> ErrorValue("CollectionExpected")]

(***************************************************************************)
(* Platform functions (platform.rs).  The payload of a string is the       *)
(* sequence of its characters, each a one-character name; a character      *)
(* takes utf8_len bytes in the UTF-8 buffer Rust indexes.  A number is     *)
(* Number(kind(n)) as in the platform's version of TypedValue, and a date  *)
(* is DateValue(epoch_millis) with epoch_millis kept as the pair           *)
(* <<seconds, millis_part>> that do_cal_date_part splits it into.  What a  *)
(* platform call returns is [st, ms, tv, hops]: hops lists the calls of    *)
(* do_str_left and do_str_right made on the way, in order.                 *)
(***************************************************************************)
I64Value(n) == <<"I64Value", n>>
U32Value(n) == <<"U32Value", n>>
I32Value(n) == <<"I32Value", n>>
Number(nv) == [t |-> "Number", v |-> nv]
DateValue(seconds, millis_part) == [t |-> "DateValue", v |-> <<seconds, millis_part>>]
to_i64(nv) == nv[2]
to_usize(nv) == nv[2]

ArgumentsMismatched(a, b) == <<"ArgumentsMismatched", a, b>>
CollectionExpected == <<"CollectionExpected">>
ConversionError == <<"ConversionError">>
DateExpected == <<"DateExpected">>
Exact == <<"Exact">>
StringExpected == <<"StringExpected">>
AssertionError(expected, actual) == <<"AssertionError", expected, actual>>

Return(ms, tv) == [st |-> "Ok", ms |-> ms, tv |-> tv, hops |-> <<>>]
Unwind(ms) == [st |-> "Panic", ms |-> ms, tv |-> Panicked, hops |-> <<>>]
Enter(call, r) == [r EXCEPT !.hops = <<call>> \o @]

\* the body of a platform function that no property here looks into
do_other(ms, op, args) == Return(ms, [t |-> "ResultOf", v |-> op])

\* char::len_utf8 and str::len: the length in bytes
utf8_len(c) == IF c = "e_acute" THEN 2 ELSE 1

RECURSIVE str_len(_)
str_len(s) == IF s = <<>> THEN 0 ELSE utf8_len(Head(s)) + str_len(Tail(s))

is_char_boundary(s, k) == \E i \in 0..Len(s) : str_len(SubSeq(s, 1, i)) = k

\* the number of characters that end at byte k
chars_before(s, k) == CHOOSE i \in 0..Len(s) : str_len(SubSeq(s, 1, i)) = k

\* s[a..b], a byte range: Panicked where the index panics (a range that is
\* out of bounds, reversed, or not on a character boundary)
slice(s, a, b) ==
    IF a >= 0 /\ a <= b /\ b <= str_len(s) /\ is_char_boundary(s, a) /\ is_char_boundary(s, b)
    THEN StringValue(SubSeq(s, chars_before(s, a) + 1, chars_before(s, b)))
    ELSE Panicked

Sliced(ms, tv) == IF tv = Panicked THEN Unwind(ms) ELSE Return(ms, tv)

RECURSIVE do_str_left(_, _, _)
RECURSIVE do_str_right(_, _, _)

do_str_left(ms, string, n_chars) ==
    Enter([fn |-> "do_str_left", string |-> string, n_chars |-> n_chars],
          IF string.t = "StringValue"
          THEN IF n_chars.t = "Number" /\ to_i64(n_chars.v) < 0
               THEN do_str_right(ms, string, Number(I64Value(0 - to_i64(n_chars.v))))
               ELSE IF n_chars.t = "Number"
               THEN Sliced(ms, slice(string.v, 0, to_usize(n_chars.v)))
               ELSE Return(ms, Undefined)
          ELSE Return(ms, Undefined))

do_str_right(ms, string, n_chars) ==
    Enter([fn |-> "do_str_right", string |-> string, n_chars |-> n_chars],
          IF string.t = "StringValue"
          THEN IF n_chars.t = "Number" /\ to_i64(n_chars.v) < 0
               THEN do_str_left(ms, string, Number(I64Value(0 - to_i64(n_chars.v))))
               ELSE IF n_chars.t = "Number"
               THEN LET strlen == str_len(string.v) IN
                    Sliced(ms, slice(string.v, strlen - to_usize(n_chars.v), strlen))
               ELSE Return(ms, Undefined)
          ELSE Return(ms, Undefined))

\* TypedValue::unwrap_value: the text of a value (a string's own text, a number in decimal)
Digit(n) == <<"0", "1", "2", "3", "4", "5", "6", "7", "8", "9">>[n + 1]

RECURSIVE decimal(_)
decimal(n) ==
    IF n < 0 THEN <<"-">> \o decimal(0 - n)
    ELSE IF n < 10 THEN <<Digit(n)>>
    ELSE decimal(n \div 10) \o <<Digit(n % 10)>>

unwrap_value(value) ==
    CASE value.t = "StringValue" -> value.v
      [] value.t = "Number" -> decimal(to_i64(value.v))
      [] OTHER -> <<"u", "n", "d", "e", "f", "i", "n", "e", "d">>

\* str::find("{}"): the position (from 0) of the first placeholder, -1 for None
find_placeholder(s) ==
    LET hits == {i \in 1..(Len(s) - 1) : s[i] = "{" /\ s[i + 1] = "}"} IN
    IF hits = {} THEN 0 - 1
    ELSE (CHOOSE i \in hits : \A j \in hits : i <= j) - 1

\* String::replace_range(pos..pos + 2, text)
replace_range(s, pos, text) == SubSeq(s, 1, pos) \o text \o SubSeq(s, pos + 3, Len(s))

\* the while loop of format_text: result and what replacement_iter has left
RECURSIVE format_text(_, _)
format_text(result, replacements) ==
    LET pos == find_placeholder(result) IN
    IF pos < 0 THEN result
    ELSE IF replacements # <<>>
    THEN format_text(replace_range(result, pos, unwrap_value(Head(replacements))),
                     Tail(replacements))
    ELSE result

do_str_format(ms, args) ==
    IF args = <<>> THEN Return(ms, StringValue(<<>>))
    ELSE IF args[1].t = "StringValue"
    THEN Return(ms, StringValue(format_text(args[1].v, Tail(args))))
    ELSE Return(ms, ErrorValue(StringExpected))

\* chrono's Local.timestamp(seconds, _): the civil date and time of day of
\* the instant, at utc_offset seconds east of Greenwich
timestamp(seconds, utc_offset) ==
    LET local == seconds + utc_offset
        days == local \div 86400
        secs == local % 86400
        z == days + 719468
        era == z \div 146097
        doe == z - era * 146097
        yoe == (doe - doe \div 1460 + doe \div 36524 - doe \div 146096) \div 365
        doy == doe - (365 * yoe + yoe \div 4 - yoe \div 100)
        mp == (5 * doy + 2) \div 153
        m == IF mp < 10 THEN mp + 3 ELSE mp - 9
    IN  [year |-> yoe + era * 400 + (IF m <= 2 THEN 1 ELSE 0),
         month |-> m,
         day |-> doy - (153 * mp + 2) \div 5 + 1,
         hour |-> secs \div 3600,
         minute |-> (secs % 3600) \div 60,
         second |-> secs % 60]

\* Timelike::hour12().1
hour12(hour) == IF hour % 12 = 0 THEN 12 ELSE hour % 12

CalDateParts ==
    {"CalDateDay", "CalDateHour12", "CalDateHour24", "CalDateMinute", "CalDateMonth",
     "CalDateSecond", "CalDateYear"}

do_cal_date_part(ms, value, plat, utc_offset) ==
    IF value.t = "DateValue"
    THEN LET datetime == timestamp(value.v[1], utc_offset) IN
         CASE plat = "CalDateDay" -> Return(ms, Number(U32Value(datetime.day)))
           [] plat = "CalDateHour12" -> Return(ms, Number(U32Value(hour12(datetime.hour))))
           [] plat = "CalDateHour24" -> Return(ms, Number(U32Value(datetime.hour)))
           [] plat = "CalDateMinute" -> Return(ms, Number(U32Value(datetime.minute)))
           [] plat = "CalDateMonth" -> Return(ms, Number(U32Value(datetime.second)))
           [] plat = "CalDateSecond" -> Return(ms, Number(U32Value(datetime.second)))
           [] plat = "CalDateYear" -> Return(ms, Number(I32Value(datetime.year)))
           [] OTHER -> Return(ms, ErrorValue(ConversionError))
    ELSE Return(ms, ErrorValue(DateExpected))

\* the arms of PlatformOps::evaluate, by the adapter each goes through
Fn0Ops ==
    {"OsCurrentDir", "OsClear", "OsEnv", "OxideHelp", "OxideHome", "OxideReset",
     "OxideVersion"}
Fn1Ops ==
    {"IoFileExists", "IoFileReadText", "IoStdErr", "IoStdOut", "OxideAssert",
     "OxideCompile", "OxideEval", "OxidePrintln", "OxideTypeOf", "StrLen", "StrToString",
     "ToolsCompact", "ToolsDescribe", "ToolsReverse", "ToolsScan", "ToolsToArray",
     "ToolsToCSV", "ToolsToJSON", "ToolsToTable", "UtilBase64", "UtilMD5", "UtilToASCII",
     "WwwURLDecode", "WwwURLEncode", "WwwServe"}
Fn1PfOps ==
    CalDateParts
    \cup {"UtilToF32", "UtilToF64", "UtilToI8", "UtilToI16", "UtilToI32", "UtilToI64",
          "UtilToI128", "UtilToU8", "UtilToU16", "UtilToU32", "UtilToU64", "UtilToU128"}
Fn2Ops ==
    {"IoFileCreate", "OxideMatches", "StrEndsWith", "StrIndexOf", "StrJoin", "StrLeft",
     "StrRight", "StrSplit", "StrStartsWith", "ToolsFetch"}
Fn3Ops == {"StrSubstring"}
DirectOps == {"CalDate", "OsCall", "OxideHistory", "OxideUUID", "StrFormat"}
PlatformOps == Fn0Ops \cup Fn1Ops \cup Fn1PfOps \cup Fn2Ops \cup Fn3Ops \cup DirectOps

\* get_parameter_types(op).len(): the declared parameter count
get_parameter_count(op) ==
    CASE op \in Fn0Ops \cup {"CalDate", "OxideHistory", "OxideUUID"} -> 0
      [] op \in Fn1Ops \cup Fn1PfOps \cup {"OsCall"} -> 1
      [] op \in Fn2Ops \cup {"StrFormat"} -> 2
      [] op \in Fn3Ops -> 3

adapter_fn0(ms, args, op) ==
    IF Len(args) = 0 THEN do_other(ms, op, args)
    ELSE Return(ms, ErrorValue(ArgumentsMismatched(0, Len(args))))

\* oxide::assert: an error is returned as it is, false is an assertion error and every
\* other value is returned as it is
do_oxide_assert(ms, value) ==
    CASE value.t = "ErrorValue" -> Return(ms, value)
      [] value = Boolean(FALSE) -> Return(ms, ErrorValue(AssertionError("true", "false")))
      [] OTHER -> Return(ms, value)

adapter_fn1(ms, args, op) ==
    IF Len(args) = 1
    THEN IF op = "OxideAssert" THEN do_oxide_assert(ms, args[1]) ELSE do_other(ms, op, args)
    ELSE Return(ms, ErrorValue(ArgumentsMismatched(1, Len(args))))

adapter_fn1_pf(ms, args, op, utc_offset) ==
    IF Len(args) = 1
    THEN IF op \in CalDateParts THEN do_cal_date_part(ms, args[1], op, utc_offset)
         ELSE do_other(ms, op, args)
    ELSE Return(ms, ErrorValue(ArgumentsMismatched(1, Len(args))))

adapter_fn2(ms, args, op) ==
    IF Len(args) = 2
    THEN CASE op = "StrLeft" -> do_str_left(ms, args[1], args[2])
           [] op = "StrRight" -> do_str_right(ms, args[1], args[2])
           [] OTHER -> do_other(ms, op, args)
    ELSE Return(ms, ErrorValue(ArgumentsMismatched(2, Len(args))))

adapter_fn3(ms, args, op) ==
    IF Len(args) = 3 THEN do_other(ms, op, args)
    ELSE Return(ms, ErrorValue(ArgumentsMismatched(3, Len(args))))

do_cal_date(ms, args) ==
    IF args # <<>> THEN Return(ms, ErrorValue(Exact))
    ELSE do_other(ms, "CalDate", args)

\* the command runs (to a text or to an error of its own) whenever there is one
do_os_call(ms, args) ==
    IF args # <<>> THEN do_other(ms, "OsCall", args)
    ELSE Return(ms, ErrorValue(CollectionExpected))

do_oxide_history(ms, args) ==
    CASE args = <<>> -> do_other(ms, "OxideHistory", args)
      [] Len(args) = 1 /\ args[1].t = "Number" -> do_other(ms, "OxideHistory", args)
      [] OTHER -> Return(ms, ErrorValue(ArgumentsMismatched(Len(args), 1)))

do_util_uuid(ms, args) ==
    IF args # <<>> THEN Return(ms, ErrorValue(ArgumentsMismatched(0, Len(args))))
    ELSE do_other(ms, "OxideUUID", args)

PlatformOps_evaluate(op, ms, args, utc_offset) ==
    CASE op = "CalDate" -> do_cal_date(ms, args)
      [] op = "OsCall" -> do_os_call(ms, args)
      [] op = "OxideHistory" -> do_oxide_history(ms, args)
      [] op = "OxideUUID" -> do_util_uuid(ms, args)
      [] op = "StrFormat" -> do_str_format(ms, args)
      [] op \in Fn0Ops -> adapter_fn0(ms, args, op)
      [] op \in Fn1Ops -> adapter_fn1(ms, args, op)
      [] op \in Fn1PfOps -> adapter_fn1_pf(ms, args, op, utc_offset)
      [] op \in Fn2Ops -> adapter_fn2(ms, args, op)
      [] op \in Fn3Ops -> adapter_fn3(ms, args, op)

(***************************************************************************)
(* DataType (data_types.rs).  A type is [t, v]: the variant and its        *)
(* payload (the size, the values of an Enum, 0 where there is none).  A    *)
(* type text is the sequence of its lexemes, "String(10)" being            *)
(* <<"String", "(", "10", ")">>; parse_fully, the tokenizer, gives each    *)
(* lexeme its kind.  What parse returns is [st, dt]: Ok with the type, Err *)
(* with the io::Error, or Panic.  StructureType and TableType, which parse *)
(* never returns, are left out.                                            *)
(***************************************************************************)
BLOBType(size) == [t |-> "BLOBType", v |-> size]
BooleanType == [t |-> "BooleanType", v |-> 0]
CLOBType(size) == [t |-> "CLOBType", v |-> size]
DateType == [t |-> "DateType", v |-> 0]
EnumType(values) == [t |-> "EnumType", v |-> values]
Int8Type == [t |-> "Int8Type", v |-> 0]
Int16Type == [t |-> "Int16Type", v |-> 0]
Int32Type == [t |-> "Int32Type", v |-> 0]
Int64Type == [t |-> "Int64Type", v |-> 0]
Float32Type == [t |-> "Float32Type", v |-> 0]
Float64Type == [t |-> "Float64Type", v |-> 0]
RecordNumberType == [t |-> "RecordNumberType", v |-> 0]
StringType(size) == [t |-> "StringType", v |-> size]
UUIDType == [t |-> "UUIDType", v |-> 0]

Parsed(data_type) == [st |-> "Ok", dt |-> data_type]
Rejected(message) == [st |-> "Err", dt |-> [t |-> "io::Error", v |-> message]]
Aborts == [st |-> "Panic", dt |-> Panicked]

\* the sizes the model writes out, and their numerals
Sizes == 0..MaxInt
Numerals == {ToString(n) : n \in Sizes}
Quote(text) == "\"" \o text \o "\""

\* the lexemes of the model
Words ==
    {"BLOB", "Boolean", "Byte", "CLOB", "Date", "f64", "Enum", "Float", "Int", "Long",
     "RecordNumber", "Short", "String", "Struct", "Table", "UUID",
     "u8", "i16", "i32", "i64", "f32", "Money", "A", "B"}
Punctuation == {"(", ")", ",", "[", "]"}

\* the tokenizer: one token per lexeme
Token(kind, text) == [kind |-> kind, text |-> text]
token_of(lexeme) ==
    CASE lexeme \in Punctuation -> Token("Operator", lexeme)
      [] lexeme \in Numerals \cup {"1.5"} -> Token("Numeric", lexeme)
      [] lexeme \in Words -> Token("Atom", lexeme)
      [] OTHER -> Token("DoubleQuoted", lexeme)
parse_fully(text) == [i \in 1..Len(text) |-> token_of(text[i])]

\* str::parse::<usize>: the number a numeral writes, -1 for Err
parse_usize(text) ==
    IF text \in Numerals THEN CHOOSE n \in Sizes : ToString(n) = text ELSE 0 - 1

parameterless(data_type, args) ==
    IF args = <<>> THEN Parsed(data_type)
    ELSE Rejected("Parameters are not supported for this type")

size_parameter(variant, args) ==
    IF Len(args) = 1
    THEN IF parse_usize(args[1]) >= 0 THEN Parsed([t |-> variant, v |-> parse_usize(args[1])])
         ELSE Rejected("cnv_error")
    ELSE Rejected("a single parameter was expected for this type")

resolve(name, args) ==
    CASE name = "BLOB" -> size_parameter("BLOBType", args)
      [] name = "Boolean" -> parameterless(BooleanType, args)
      [] name = "Byte" -> parameterless(Int8Type, args)
      [] name = "CLOB" -> size_parameter("CLOBType", args)
      [] name = "Date" -> parameterless(DateType, args)
      [] name = "f64" -> parameterless(Float64Type, args)
      [] name = "Enum" -> Parsed(EnumType(args))
      [] name = "Float" -> parameterless(Float32Type, args)
      [] name = "Int" -> parameterless(Int32Type, args)
      [] name = "Long" -> parameterless(Int64Type, args)
      [] name = "RecordNumber" -> parameterless(RecordNumberType, args)
      [] name = "Short" -> parameterless(Int16Type, args)
      [] name = "String" -> size_parameter("StringType", args)
      [] name = "Struct" -> Rejected("Struct is not yet implemented")
      [] name = "Table" -> Rejected("Table is not yet implemented")
      [] name = "UUID" -> parameterless(UUIDType, args)
      [] OTHER -> Rejected("unrecognized type")

RECURSIVE transfer_to_string_array(_)
transfer_to_string_array(token_slice) ==
    IF token_slice = <<>> THEN <<>>
    ELSE LET t == Head(token_slice) IN
         (IF t.kind \in {"Atom", "Numeric"} THEN <<t.text>> ELSE <<>>)
         \o transfer_to_string_array(Tail(token_slice))

parse(column_type) ==
    LET token_slice == parse_fully(column_type)
        n == Len(token_slice) IN
    IF n = 1 /\ token_slice[1].kind = "Atom"
    THEN resolve(token_slice[1].text, <<>>)
    ELSE IF /\ n = 4
            /\ token_slice[1].kind = "Atom"
            /\ token_slice[2].kind = "Operator"
            /\ token_slice[3].kind = "Numeric"
            /\ token_slice[4].kind = "Operator"
            /\ token_slice[2].text = "(" /\ token_slice[4].text = ")"
    THEN resolve(token_slice[1].text, <<token_slice[3].text>>)
    ELSE IF /\ n >= 3
            /\ token_slice[1].kind = "Atom"
            /\ token_slice[2].kind = "Operator"
            /\ token_slice[n].kind = "Operator"
            /\ token_slice[2].text = "(" /\ token_slice[n].text = ")"
    THEN resolve(token_slice[1].text,
                 transfer_to_string_array(SubSeq(token_slice, 2, n - 1)))
    ELSE IF n = 0 THEN Aborts
    ELSE Rejected("malformed type definition")

\* format!("{:?}", values) of a Vec<String>, lexeme by lexeme
RECURSIVE debug_items(_)
debug_items(values) ==
    IF values = <<>> THEN <<>>
    ELSE IF Len(values) = 1 THEN <<Quote(values[1])>>
    ELSE <<Quote(values[1]), ",">> \o debug_items(Tail(values))

to_column_type(data_type) ==
    CASE data_type.t = "BLOBType" -> <<"BLOB", "(", ToString(data_type.v), ")">>
      [] data_type.t = "BooleanType" -> <<"Boolean">>
      [] data_type.t = "CLOBType" -> <<"CLOB", "(", ToString(data_type.v), ")">>
      [] data_type.t = "DateType" -> <<"Date">>
      [] data_type.t = "EnumType" ->
            <<"Enum", "(", "[">> \o debug_items(data_type.v) \o <<"]", ")">>
      [] data_type.t = "Int8Type" -> <<"u8">>
      [] data_type.t = "Int16Type" -> <<"i16">>
      [] data_type.t = "Int32Type" -> <<"i32">>
      [] data_type.t = "Int64Type" -> <<"i64">>
      [] data_type.t = "Float32Type" -> <<"f32">>
      [] data_type.t = "Float64Type" -> <<"f64">>
      [] data_type.t = "RecordNumberType" -> <<"RecordNumber">>
      [] data_type.t = "StringType" -> <<"String", "(", ToString(data_type.v), ")">>
      [] data_type.t = "UUIDType" -> <<"UUID">>

(***************************************************************************)
(* The codec of typed values (typed_values.rs:42-84).  A buffer is a       *)
(* sequence of bytes (0..255); a BLOB is its bytes, a CLOB and a string    *)
(* the sequence of their characters, a UUID its 16 bytes.  The functions   *)
(* of the codec module read the buffer from a 0-based offset: a read       *)
(* beyond its end panics.  decode returns a typed value, or Panicked.      *)
(***************************************************************************)
BLOBValue(bytes) == [t |-> "BLOBValue", v |-> bytes]
CLOBValue(chars) == [t |-> "CLOBValue", v |-> chars]
RecordNumber(id) == [t |-> "RecordNumber", v |-> id]
UUIDValue(guid) == [t |-> "UUIDValue", v |-> guid]

\* {integer}::to_be_bytes: the two's complement image in width bytes
RECURSIVE to_be_bytes(_, _)
to_be_bytes(number, width) ==
    IF width = 0 THEN <<>>
    ELSE to_be_bytes(number \div 256, width - 1) \o <<number % 256>>

\* u8/usize::from_be_bytes and i16/i32/i64::from_be_bytes
RECURSIVE unsigned_from_be_bytes(_)
unsigned_from_be_bytes(b) ==
    IF b = <<>> THEN 0
    ELSE unsigned_from_be_bytes(SubSeq(b, 1, Len(b) - 1)) * 256 + b[Len(b)]

RECURSIVE from_be_bytes(_)
from_be_bytes(b) ==
    IF Len(b) = 1 THEN (IF b[1] >= 128 THEN b[1] - 256 ELSE b[1])
    ELSE from_be_bytes(SubSeq(b, 1, Len(b) - 1)) * 256 + b[Len(b)]

\* the IEEE 754 images of the floats of the model: 0.0, 0.5 and 45.0
FloatImages ==
    {[q |-> <<0, 1>>, f32 |-> <<0, 0, 0, 0>>, f64 |-> <<0, 0, 0, 0, 0, 0, 0, 0>>],
     [q |-> <<1, 2>>, f32 |-> <<63, 0, 0, 0>>, f64 |-> <<63, 224, 0, 0, 0, 0, 0, 0>>],
     [q |-> <<45, 1>>, f32 |-> <<66, 52, 0, 0>>, f64 |-> <<64, 70, 128, 0, 0, 0, 0, 0>>]}
f32_to_be_bytes(q) == (CHOOSE i \in FloatImages : i.q = q).f32
f64_to_be_bytes(q) == (CHOOSE i \in FloatImages : i.q = q).f64
f32_from_be_bytes(b) ==
    IF \E i \in FloatImages : i.f32 = b THEN (CHOOSE i \in FloatImages : i.f32 = b).q
    ELSE NaN
f64_from_be_bytes(b) ==
    IF \E i \in FloatImages : i.f64 = b THEN (CHOOSE i \in FloatImages : i.f64 = b).q
    ELSE NaN

\* the UTF-8 bytes of a character, and the characters of UTF-8 bytes
utf8_bytes(c) ==
    CASE c = "a" -> <<97>>
      [] c = "b" -> <<98>>
      [] c = "e_acute" -> <<195, 169>>
      [] OTHER -> <<63>>

RECURSIVE str_as_bytes(_)
str_as_bytes(s) == IF s = <<>> THEN <<>> ELSE utf8_bytes(Head(s)) \o str_as_bytes(Tail(s))

RECURSIVE from_utf8(_)
from_utf8(b) ==
    IF b = <<>> THEN <<>>
    ELSE IF b[1] = 97 THEN <<"a">> \o from_utf8(Tail(b))
    ELSE IF b[1] = 98 THEN <<"b">> \o from_utf8(Tail(b))
    ELSE IF Len(b) >= 2 /\ b[1] = 195 /\ b[2] = 169
    THEN <<"e_acute">> \o from_utf8(SubSeq(b, 3, Len(b)))
    ELSE <<"?">> \o from_utf8(Tail(b))

\* codec: a sized image is an 8-byte big-endian length and the bytes
encode_u8x_n(bytes) == to_be_bytes(Len(bytes), 8) \o bytes
encode_string(string) == encode_u8x_n(str_as_bytes(string))
encode_chars(chars) == encode_u8x_n(str_as_bytes(chars))

\* codec: buffer[offset..offset + n]; BeyondEnd where the read passes the
\* end of the buffer (the index panics)
BeyondEnd == <<0 - 1>>
decode_u8x(buffer, offset, n) ==
    IF offset + n <= Len(buffer) THEN SubSeq(buffer, offset + 1, offset + n) ELSE BeyondEnd

\* codec: the row id in the 8 bytes at offset, -1 where the read panics
decode_row_id(buffer, offset) ==
    LET b == decode_u8x(buffer, offset, 8) IN
    IF b = BeyondEnd THEN 0 - 1 ELSE unsigned_from_be_bytes(b)

\* codec: the string of at most max_size bytes behind the length at offset,
\* Unreadable where a read panics
Unreadable == <<"panic!">>
decode_string(buffer, offset, max_size) ==
    LET length == decode_u8x(buffer, offset, 8) IN
    IF length = BeyondEnd THEN Unreadable
    ELSE LET n == Min(unsigned_from_be_bytes(length), max_size)
             b == decode_u8x(buffer, offset + 8, n) IN
         IF b = BeyondEnd THEN Unreadable ELSE from_utf8(b)

\* a fixed-width arm of decode: the value its closure makes of the bytes read
Decoded(read, value) == IF read THEN value ELSE Panicked

decode(data_type, buffer, offset) ==
    CASE data_type.t = "BLOBType" -> BLOBValue(<<>>)
      [] data_type.t = "BooleanType" ->
            LET b == decode_u8x(buffer, offset, 1) IN
            Decoded(b # BeyondEnd, Boolean(b[1] = 1))
      [] data_type.t = "CLOBType" -> CLOBValue(<<>>)
      [] data_type.t = "DateType" ->
            LET b == decode_u8x(buffer, offset, 8) IN
            Decoded(b # BeyondEnd,
                    DateValue(from_be_bytes(b) \div 1000, from_be_bytes(b) % 1000))
      [] data_type.t = "EnumType" -> Panicked
      [] data_type.t = "Int8Type" ->
            LET b == decode_u8x(buffer, offset, 1) IN
            Decoded(b # BeyondEnd, Int8Value(b[1]))
      [] data_type.t = "Int16Type" ->
            LET b == decode_u8x(buffer, offset, 2) IN
            Decoded(b # BeyondEnd, Int16Value(from_be_bytes(b)))
      [] data_type.t = "Int32Type" ->
            LET b == decode_u8x(buffer, offset, 4) IN
            Decoded(b # BeyondEnd, Int32Value(from_be_bytes(b)))
      [] data_type.t = "Int64Type" ->
            LET b == decode_u8x(buffer, offset, 8) IN
            Decoded(b # BeyondEnd, Int64Value(from_be_bytes(b)))
      [] data_type.t = "Float32Type" ->
            LET b == decode_u8x(buffer, offset, 4) IN
            Decoded(b # BeyondEnd, Float32Value(f32_from_be_bytes(b)))
      [] data_type.t = "Float64Type" ->
            LET b == decode_u8x(buffer, offset, 8) IN
            Decoded(b # BeyondEnd, Float64Value(f64_from_be_bytes(b)))
      [] data_type.t = "RecordNumberType" ->
            LET id == decode_row_id(buffer, 1) IN Decoded(id >= 0, Int64Value(id))
      [] data_type.t = "StringType" ->
            LET s == decode_string(buffer, offset, data_type.v) IN
            Decoded(s # Unreadable, StringValue(s))
      [] data_type.t = "UUIDType" ->
            LET b == decode_u8x(buffer, offset, 16) IN
            Decoded(b # BeyondEnd, UUIDValue(b))

encode_value(value) ==
    CASE value.t = "BLOBValue" -> encode_u8x_n(value.v)
      [] value.t = "Boolean" -> IF value.v THEN <<1>> ELSE <<0>>
      [] value.t = "CLOBValue" -> encode_chars(value.v)
      [] value.t = "DateValue" -> to_be_bytes(1000 * value.v[1] + value.v[2], 8)
      [] value.t = "Float32Value" -> f32_to_be_bytes(value.v)
      [] value.t = "Float64Value" -> f64_to_be_bytes(value.v)
      [] value.t = "Int8Value" -> to_be_bytes(value.v, 1)
      [] value.t = "Int16Value" -> to_be_bytes(value.v, 2)
      [] value.t = "Int32Value" -> to_be_bytes(value.v, 4)
      [] value.t = "Int64Value" -> to_be_bytes(value.v, 8)
      [] value.t \in {"Null", "Undefined"} -> <<>>
      [] value.t = "RecordNumber" -> to_be_bytes(value.v, 8)
      [] value.t = "StringValue" -> encode_string(value.v)
      [] value.t = "UUIDValue" -> value.v

encode(value) == encode_value(value)

(***************************************************************************)
(* Interpreter (interpreter.rs)                                            *)
(***************************************************************************)
\* Interpreter::new
Interpreter_new == new

\* a variant that drops the machine the evaluation returned
Interpreter_evaluate_forgetful(m, opcode, chk) ==
    LET r == evaluate(m, opcode, chk)
    IN  [answer |-> [st |-> r.st, tv |-> r.tv], machine |-> m]

\* Interpreter::evaluate on a compiled script: the call's result and the machine the
\* interpreter holds afterwards (the new one on Ok, the old one when `?` returns early)
Interpreter_evaluate(m, opcode, chk) ==
    LET r == evaluate(m, opcode, chk)
    IN  [answer |-> [st |-> r.st, tv |-> r.tv],
         machine |-> IF r.st = "Ok" THEN r.ms ELSE m]

(***************************************************************************)
(* Inputs of the model                                                     *)
(***************************************************************************)
\* the value the tests name as the result of an assignment (TypedValue::Ack)
Ack == [t |-> "Ack", v |-> 0]

Half == <<1, 2>>
Whole(n) == <<n, 1>>

OperandValues ==
    {Undefined, Null, Boolean(TRUE), Boolean(FALSE)}
    \cup {Int8Value(n) : n \in {0, 1, 200, U8Max}}
    \cup {Int16Value(n) : n \in {0 - I16Max - 1, 0 - 1, 0, 2, I16Max}}
    \cup {Int32Value(n) : n \in {0, 3}}
    \cup {Int64Value(n) : n \in {0 - 4, 0, 5, 36}}
    \cup {Float32Value(q) : q \in {Whole(1)}}
    \cup {Float64Value(q) : q \in {Whole(0), Half, Whole(3), NaN}}
    \cup {StringValue(s) : s \in {"", "NYSE"}}

Names == {"x", "y"}

Atoms ==
    {Literal(Int64Value(n)) : n \in {1, 5}}
    \cup {Literal(Null)}
    \cup {Variable(n) : n \in Names}

ScriptNodes == {"Plus", "Divide"}

Operations ==
    {Binary(node, Variable(n), a) :
        node \in ScriptNodes, n \in Names,
        a \in {Literal(Int64Value(0)), Literal(Int64Value(1))}}

Assignments ==
    {SetVariable(n, e) : n \in Names, e \in Atoms \cup Operations}

Blocks ==
    {CodeBlock(<<>>),
     CodeBlock(<<SetVariable("x", Literal(Int64Value(5))),
                 SetVariable("x", Binary("Plus", Variable("x"), Literal(Int64Value(1)))),
                 Variable("x")>>),
     CodeBlock(<<SetVariable("y", Literal(Int64Value(1))), Unhandled("While"), Variable("y")>>),
     Tuple(<<Variable("x"), SetVariable("y", Variable("x")), Variable("y")>>),
     Binary("Plus", SetVariable("x", Literal(Int64Value(1))), Unhandled("If")),
     Unhandled("FunctionCall"),
     Delete(Variable("x"), NoneValue, NoneValue),
     Tuple(<<Literal(Int64Value(1)), Delete(Variable("x"), NoneValue, Literal(Int64Value(1)))>>)}

Scripts == Atoms \cup Operations \cup Assignments \cup Blocks

\* the machine holds only numbers within the bound
WithinBound(ms) ==
    \A n \in DOMAIN ms.variables :
        /\ ms.variables[n].t \in IntKinds => Abs(ms.variables[n].v) <= MaxInt
        /\ ms.variables[n].t \in FloatKinds =>
                Abs(ms.variables[n].v[1]) <= MaxInt /\ ms.variables[n].v[2] <= MaxInt

NoOutcome == [st |-> "None", ms |-> new, tv |-> Undefined]
NoAnswer == [st |-> "None", tv |-> Undefined]
NoVerb == [name |-> "none"]

(***************************************************************************)
(* The operators: operands drawn at the start, one action per binary node  *)
(***************************************************************************)
InitOps ==
    /\ overflow_checks \in BOOLEAN
    /\ lhs \in OperandValues
    /\ rhs \in OperandValues
    /\ binop = ""
    /\ out = NoOutcome
    /\ machine = Interpreter_new
    /\ script = Literal(Undefined)
    /\ answer = NoAnswer
    /\ before = Interpreter_new
    /\ rows = <<>>
    /\ verb = NoVerb
    /\ ret = Undefined
    /\ prev = <<>>

EvaluateBinary(node) ==
    /\ out.st # "Panic"
    /\ binop' = node
    /\ out' = evaluate(new, Binary(node, Literal(lhs), Literal(rhs)), overflow_checks)
    /\ UNCHANGED <<overflow_checks, lhs, rhs, machine, script, answer, before,
                   rows, verb, ret, prev>>

EvaluatePlus == EvaluateBinary("Plus")
EvaluateMinus == EvaluateBinary("Minus")
EvaluateMultiply == EvaluateBinary("Multiply")
EvaluateDivide == EvaluateBinary("Divide")
EvaluateComparison == \E node \in ComparisonNodes : EvaluateBinary(node)
EvaluateLogic == \E node \in LogicNodes : EvaluateBinary(node)

NextOps ==
    \/ EvaluatePlus
    \/ EvaluateMinus
    \/ EvaluateMultiply
    \/ EvaluateDivide
    \/ EvaluateComparison
    \/ EvaluateLogic

SpecOps == InitOps /\ [][NextOps]_vars

(***************************************************************************)
(* The interpreter: one action per call of Interpreter::evaluate           *)
(***************************************************************************)
InitInterpreter ==
    /\ overflow_checks \in BOOLEAN
    /\ lhs = Undefined
    /\ rhs = Undefined
    /\ binop = ""
    /\ out = NoOutcome
    /\ machine = Interpreter_new
    /\ script = Literal(Undefined)
    /\ answer = NoAnswer
    /\ before = Interpreter_new
    /\ rows = <<>>
    /\ verb = NoVerb
    /\ ret = Undefined
    /\ prev = <<>>

\* a panic ends the process: no call follows it
Evaluate(opcode) ==
    /\ answer.st # "Panic"
    /\ LET r == Interpreter_evaluate(machine, opcode, overflow_checks)
       IN  /\ WithinBound(r.machine)
           /\ machine' = r.machine
           /\ answer' = r.answer
    /\ script' = opcode
    /\ before' = machine
    /\ UNCHANGED <<overflow_checks, lhs, rhs, binop, out, rows, verb, ret, prev>>

EvaluateExpression == \E e \in Atoms \cup Operations : Evaluate(e)
EvaluateAssignment == \E e \in Assignments : Evaluate(e)
EvaluateBlock == \E e \in Blocks : Evaluate(e)

NextInterpreter ==
    \/ EvaluateExpression
    \/ EvaluateAssignment
    \/ EvaluateBlock

SpecInterpreter == InitInterpreter /\ [][NextInterpreter]_vars


(***************************************************************************)
(* The machine: one action per method called on the machine a caller       *)
(* holds.  Every method takes &self: the call leaves the caller's machine  *)
(* as it is and returns a machine (in out); the caller may then go on      *)
(* with the machine returned.                                              *)
(***************************************************************************)
StackValues == {Int64Value(1), Int64Value(5)}

MachineScripts ==
    {Variable("x"),
     Literal(Int64Value(1)),
     Binary("Plus", Variable("x"), Variable("y")),
     Binary("Divide", Variable("x"), Literal(Int64Value(0))),
     Binary("Equal", Variable("y"), Literal(Int64Value(5))),
     SetVariable("x", Literal(Int64Value(5))),
     SetVariable("y", Variable("x")),
     CodeBlock(<<Variable("x"), Variable("y")>>),
     Tuple(<<Variable("x"), SetVariable("y", Literal(Int64Value(1)))>>),
     Unhandled("While")}

InitMachine ==
    /\ overflow_checks = FALSE
    /\ lhs = Undefined
    /\ rhs = Undefined
    /\ binop = ""
    /\ out = NoOutcome
    /\ machine = new
    /\ script = Literal(Undefined)
    /\ answer = NoAnswer
    /\ before = new
    /\ rows = <<>>
    /\ verb = NoVerb
    /\ ret = Undefined
    /\ prev = <<>>

\* the call of a method on the machine: before is the machine as it was at the call
Call(op, result) ==
    /\ out.st # "Panic"
    /\ script' = op
    /\ out' = result
    /\ before' = machine
    /\ machine' = machine
    /\ UNCHANGED <<overflow_checks, lhs, rhs, binop, answer, rows, verb, ret, prev>>

CallPush ==
    /\ Len(machine.stack) < MaxStack
    /\ \E value \in StackValues :
            Call([node |-> "push", value |-> value], Ok(push(machine, value), Undefined))

CallPop ==
    Call([node |-> "pop"], Ok(pop(machine).ms, pop(machine).value))

CallPushAll ==
    \E values \in UNION {[1..k -> StackValues] : k \in 0..(MaxStack - Len(machine.stack))} :
        Call([node |-> "push_all", values |-> values], Ok(push_all(machine, values), Undefined))

CallPopOr ==
    Call([node |-> "pop_or", value |-> Null],
         Ok(pop_or(machine, Null).ms, pop_or(machine, Null).value))

CallSet ==
    \E name \in Names, value \in StackValues :
        Call([node |-> "set", name |-> name, value |-> value],
             Ok(set(machine, name, value), Undefined))

CallWithVariable ==
    \E name \in Names, value \in StackValues :
        Call([node |-> "with_variable", name |-> name, value |-> value],
             Ok(with_variable(machine, name, value), Undefined))

CallEvaluate ==
    \E e \in MachineScripts :
        Call([node |-> "evaluate", expression |-> e], evaluate(machine, e, overflow_checks))

\* the caller goes on with the machine the last call returned
Rebind ==
    /\ out.st = "Ok"
    /\ machine' = out.ms
    /\ before' = machine
    /\ script' = [node |-> "rebind"]
    /\ UNCHANGED <<overflow_checks, lhs, rhs, binop, out, answer, rows, verb, ret, prev>>

NextMachine ==
    \/ CallPush
    \/ CallPop
    \/ CallPushAll
    \/ CallPopOr
    \/ CallSet
    \/ CallWithVariable
    \/ CallEvaluate
    \/ Rebind

SpecMachine == InitMachine /\ [][NextMachine]_vars

(***************************************************************************)
(* The stored table: one action per verb on the table under Namespace      *)
(***************************************************************************)
RowContents ==
    {<<StringValue("ABC"), StringValue("NYSE")>>,
     <<StringValue("UNO"), StringValue("OTC")>>}

\* the scope of the caller; a row's columns shadow it while a condition is evaluated
Scope == with_variable(new, "exchange", StringValue("OTC"))

Conditions ==
    {NoneValue,
     Binary("Equal", Variable("exchange"), Literal(StringValue("NYSE"))),
     Variable("symbol"),
     Variable("volume"),
     Literal(Null),
     Literal(Boolean(TRUE)),
     Unhandled("While")}

Limits == {Undefined} \cup {Int64Value(n) : n \in 1..2}

\* the stored table as a table value: the same rows, held in memory
Tables ==
    {NamespaceValue(Namespace), NamespaceValue("compact.missing"),
     ErrorValue("Exact"), Int64Value(5)}

InitTable ==
    /\ overflow_checks = FALSE
    /\ lhs = Undefined
    /\ rhs = Undefined
    /\ binop = ""
    /\ out = NoOutcome
    /\ machine = Interpreter_new
    /\ script = Literal(Undefined)
    /\ answer = NoAnswer
    /\ before = Interpreter_new
    /\ rows = <<>>
    /\ verb = NoVerb
    /\ ret = Undefined
    /\ prev = <<>>

Apply(v, r) ==
    /\ verb' = v
    /\ rows' = r.rc
    /\ ret' = r.value
    /\ prev' = rows
    /\ UNCHANGED <<overflow_checks, lhs, rhs, binop, out, machine, script, answer, before>>

AppendRow ==
    /\ Len(rows) < MaxRows
    /\ \E fields \in RowContents :
            Apply([name |-> "append_row", fields |-> fields], append_row(rows, fields))

DeleteRow ==
    \E id \in 0..(Len(rows) - 1) :
        Apply([name |-> "delete_row", id |-> id], delete_row(rows, id))

UndeleteRow ==
    \E id \in 0..(Len(rows) - 1) :
        Apply([name |-> "undelete_row", id |-> id], undelete_row(rows, id))

DeleteWhere ==
    \E condition \in Conditions, limit \in Limits :
        Apply([name |-> "delete_where", condition |-> condition, limit |-> limit],
              delete_where(rows, Scope, condition, limit, overflow_checks))

UndeleteWhere ==
    \E condition \in Conditions, limit \in Limits :
        Apply([name |-> "undelete_where", condition |-> condition, limit |-> limit],
              undelete_where(rows, Scope, condition, limit, overflow_checks))

Compact ==
    \E table \in Tables \cup {TableValue(rows)} :
        Apply([name |-> "compact", table |-> table.t,
               opened |-> table.t = "NamespaceValue" /\ FileRowCollection_open(table.v)],
              do_tools_compact(rows, table))

NextTable ==
    \/ AppendRow
    \/ DeleteRow
    \/ UndeleteRow
    \/ DeleteWhere
    \/ UndeleteWhere
    \/ Compact

SpecTable == InitTable /\ [][NextTable]_vars

(***************************************************************************)
(* The verbs that take a caller's machine: one action per verb, called     *)
(* with the machine the caller holds (a scope that binds exchange, the     *)
(* name of a column) on the table under Namespace                          *)
(***************************************************************************)
ScopedConditions ==
    {NoneValue,
     Binary("Equal", Variable("exchange"), Literal(StringValue("NYSE"))),
     SetVariable("exchange", Literal(StringValue("NYSE")))}

\* the condition and the limit of a call: every condition without a limit, and a limit
\* of one row without a condition
ScopedCalls ==
    {[condition |-> c, limit |-> Undefined] : c \in ScopedConditions}
    \cup {[condition |-> NoneValue, limit |-> Int64Value(1)]}

\* the fields and values of an overwrite: exchange = "OTC", a field that is no name,
\* and a value whose evaluation fails
Changes ==
    {[fields |-> <<Variable("exchange")>>, values |-> <<Literal(StringValue("OTC"))>>],
     [fields |-> <<Literal(Int64Value(1))>>, values |-> <<Literal(StringValue("OTC"))>>],
     [fields |-> <<Variable("exchange")>>, values |-> <<Unhandled("While")>>]}

\* a limit as the expression of a statement
LimitExpression(limit) == IF limit = Undefined THEN NoneValue ELSE Literal(limit)

InitScoped ==
    /\ overflow_checks = FALSE
    /\ lhs = Undefined
    /\ rhs = Undefined
    /\ binop = ""
    /\ out = NoOutcome
    /\ machine = Scope
    /\ script = Literal(Undefined)
    /\ answer = NoAnswer
    /\ before = Scope
    /\ rows = <<>>
    /\ verb = NoVerb
    /\ ret = Undefined
    /\ prev = <<>>

\* a verb called with a reference to the caller's machine
Run(v, r) ==
    /\ verb' = v
    /\ rows' = r.rc
    /\ ret' = r.value
    /\ prev' = rows
    /\ before' = machine
    /\ machine' = machine
    /\ out' = NoOutcome
    /\ UNCHANGED <<overflow_checks, lhs, rhs, binop, script, answer>>

ScopedAppendRow ==
    /\ Len(rows) < MaxScopedRows
    /\ \E fields \in RowContents :
            Run([name |-> "append_row", fields |-> fields], append_row(rows, fields))

ScopedDeleteRow ==
    \E id \in 0..(Len(rows) - 1) :
        Run([name |-> "delete_row", id |-> id], delete_row(rows, id))

ScopedDeleteWhere ==
    \E condition \in ScopedConditions :
        Run([name |-> "delete_where", condition |-> condition, limit |-> Undefined],
            delete_where(rows, machine, condition, Undefined, overflow_checks))

ScopedUndeleteWhere ==
    \E condition \in ScopedConditions :
        Run([name |-> "undelete_where", condition |-> condition, limit |-> Undefined],
            undelete_where(rows, machine, condition, Undefined, overflow_checks))

OverwriteWhere ==
    \E change \in Changes, call \in ScopedCalls :
        LET r == overwrite_where(rows, machine, change.fields, change.values, call.condition,
                    call.limit, overflow_checks)
        IN  Run([name |-> "overwrite_where", change |-> change, condition |-> call.condition,
                 limit |-> call.limit, st |-> r.st], r)

UpdateWhere ==
    \E change \in Changes, call \in ScopedCalls :
        LET r == update_where(rows, machine, change.fields, change.values, call.condition,
                    call.limit, overflow_checks)
        IN  Run([name |-> "update_where", change |-> change, condition |-> call.condition,
                 limit |-> call.limit, st |-> r.st], r)

\* select from the active rows of the table, read into memory; the caller goes on with
\* the machine the evaluation returns
SelectWhere ==
    \E call \in ScopedCalls :
        LET r == evaluate(machine,
                          Select(<<>>, Literal(ArrayOfRows(read_active_rows(rows))),
                                 call.condition, LimitExpression(call.limit)),
                          overflow_checks)
        IN  /\ verb' = [name |-> "select", condition |-> call.condition,
                        limit |-> call.limit, st |-> r.st]
            /\ ret' = r.tv
            /\ machine' = r.ms
            /\ before' = machine
            /\ prev' = rows
            /\ out' = NoOutcome
            /\ UNCHANGED <<overflow_checks, lhs, rhs, binop, script, answer, rows>>

\* select from a variable that holds the active rows of the table; out is what the
\* evaluation returned and before the machine it was called on
SelectFromVariable ==
    \E call \in ScopedCalls :
        \E ms \in {with_variable(machine, "stocks", ArrayOfRows(read_active_rows(rows)))} :
            \E r \in {evaluate(ms, Select(<<>>, Variable("stocks"), call.condition,
                                          LimitExpression(call.limit)), overflow_checks)} :
                /\ verb' = [name |-> "select_from", condition |-> call.condition,
                            limit |-> call.limit, st |-> r.st]
                /\ ret' = r.tv
                /\ out' = r
                /\ before' = ms
                /\ prev' = rows
                /\ UNCHANGED <<overflow_checks, lhs, rhs, binop, machine, script, answer,
                               rows>>

NextScoped ==
    \/ ScopedAppendRow
    \/ ScopedDeleteRow
    \/ ScopedDeleteWhere
    \/ ScopedUndeleteWhere
    \/ OverwriteWhere
    \/ UpdateWhere
    \/ SelectWhere
    \/ SelectFromVariable

SpecScoped == InitScoped /\ [][NextScoped]_vars

(***************************************************************************)
(* The platform: the call (the function, its arguments and the offset of   *)
(* the local time zone) is drawn at the start into verb; one action per    *)
(* group of arms of PlatformOps::evaluate makes it, with the machine the   *)
(* caller holds, and leaves what it returned in ret.                       *)
(***************************************************************************)
SeqsUpTo(S, n) == UNION {[1..k -> S] : k \in 0..n}

ArgumentValues == {Number(I64Value(1)), StringValue(<<"a">>)}
ArgumentLists == SeqsUpTo(ArgumentValues, MaxArgs)
Strings == SeqsUpTo({"a", "b", "e_acute"}, MaxLen)
Counts == (0 - MaxLen - 1)..(MaxLen + 1)
Templates == SeqsUpTo({"a", "{", "}"}, MaxLen)
Replacements ==
    SeqsUpTo({StringValue(<<>>), StringValue(<<"b">>), StringValue(<<"{", "}">>),
              Number(I64Value(7))}, 2)
\* 1970-01-01 00:00:00, 2000-02-29 12:34:56, 2023-11-14 22:13:20 and
\* 2024-12-31 23:59:59 at Greenwich, with their milliseconds
Dates ==
    {DateValue(0, 0), DateValue(951827696, 789), DateValue(1700000000, 0),
     DateValue(1735689599, 999)}
UtcOffsets == {0, 19800, 0 - 18000}

\* the values handed to oxide::assert
Assertions == {Boolean(TRUE), Boolean(FALSE), ErrorValue(Exact), Null}

\* the calls the model makes: every function with every short argument
\* list, left and right on every string and count, format on every template
\* and replacement list, the extractors on every date in every time zone
Calls ==
    {[name |-> op, args |-> args, utc_offset |-> 0] :
        op \in PlatformOps, args \in ArgumentLists}
    \cup {[name |-> op, args |-> <<StringValue(s), Number(I64Value(n))>>, utc_offset |-> 0] :
            op \in {"StrLeft", "StrRight"}, s \in Strings, n \in Counts}
    \cup {[name |-> "StrFormat", args |-> <<StringValue(template)>> \o replacements,
           utc_offset |-> 0] :
            template \in Templates, replacements \in Replacements}
    \cup {[name |-> op, args |-> <<value>>, utc_offset |-> utc_offset] :
            op \in CalDateParts, value \in Dates \cup {StringValue(<<"a">>)},
            utc_offset \in UtcOffsets}
    \cup {[name |-> "OxideAssert", args |-> <<value>>, utc_offset |-> 0] :
            value \in Assertions}

NotCalled == [st |-> "None", ms |-> new, tv |-> Undefined, hops |-> <<>>]

InitPlatform ==
    /\ overflow_checks = FALSE
    /\ lhs = Undefined
    /\ rhs = Undefined
    /\ binop = ""
    /\ out = NoOutcome
    /\ machine = Scope
    /\ script = Literal(Undefined)
    /\ answer = NoAnswer
    /\ before = Scope
    /\ rows = <<>>
    /\ verb \in Calls
    /\ ret = NotCalled
    /\ prev = <<>>

\* the call drawn at the start is made, once
CallPlatform(ops) ==
    /\ verb.name \in ops
    /\ ret = NotCalled
    /\ ret' = PlatformOps_evaluate(verb.name, machine, verb.args, verb.utc_offset)
    /\ UNCHANGED <<overflow_checks, lhs, rhs, binop, out, machine, script, answer, before,
                   rows, verb, prev>>

CallDirect == CallPlatform(DirectOps)
CallFn0 == CallPlatform(Fn0Ops)
CallFn1 == CallPlatform(Fn1Ops)
CallFn1Pf == CallPlatform(Fn1PfOps)
CallFn2 == CallPlatform(Fn2Ops)
CallFn3 == CallPlatform(Fn3Ops)

NextPlatform ==
    \/ CallDirect
    \/ CallFn0
    \/ CallFn1
    \/ CallFn1Pf
    \/ CallFn2
    \/ CallFn3

SpecPlatform == InitPlatform /\ [][NextPlatform]_vars

(***************************************************************************)
(* The data types: a type text is drawn at the start into verb; Parse      *)
(* hands it to DataType::parse and leaves what that returned in ret,       *)
(* Render turns a parsed type back into the text that is parsed next.      *)
(* prev is the type the text was rendered from, NoType for a drawn text.   *)
(***************************************************************************)
TypeNames ==
    {"BLOB", "Boolean", "Byte", "CLOB", "Date", "f64", "Enum", "Float", "Int", "Long",
     "RecordNumber", "Short", "String", "Struct", "Table", "UUID",
     "u8", "i16", "i32", "i64", "f32", "Money"}

\* what the model writes between the parentheses
ArgumentTexts ==
    {<<>>, <<"1.5">>, <<"A">>, <<"A", ",", "B">>, <<"1", ",", "2">>, <<"(", "1", ")">>}
    \cup {<<numeral>> : numeral \in Numerals}

Texts ==
    {<<name>> : name \in TypeNames}
    \cup {<<name, "(">> \o arguments \o <<")">> :
            name \in TypeNames, arguments \in ArgumentTexts}
    \cup {<<>>, <<"(">>, <<"5">>, <<"String", "(", "5">>, <<"String", "5", ")">>,
          <<"(", "5", ")">>, <<Quote("String")>>}

NoType == [t |-> "None", v |-> 0]
NotParsed == [st |-> "None", dt |-> NoType]

InitDataTypes ==
    /\ overflow_checks = FALSE
    /\ lhs = Undefined
    /\ rhs = Undefined
    /\ binop = ""
    /\ out = NoOutcome
    /\ machine = Interpreter_new
    /\ script = Literal(Undefined)
    /\ answer = NoAnswer
    /\ before = Interpreter_new
    /\ rows = <<>>
    /\ verb \in {[name |-> "parse", text |-> text] : text \in Texts}
    /\ ret = NotParsed
    /\ prev = NoType

Parse ==
    /\ ret = NotParsed
    /\ ret' = parse(verb.text)
    /\ UNCHANGED <<overflow_checks, lhs, rhs, binop, out, machine, script, answer, before,
                   rows, verb, prev>>

Render ==
    /\ ret.st = "Ok"
    /\ verb' = [name |-> "parse", text |-> to_column_type(ret.dt)]
    /\ prev' = ret.dt
    /\ ret' = NotParsed
    /\ UNCHANGED <<overflow_checks, lhs, rhs, binop, out, machine, script, answer, before,
                   rows>>

NextDataTypes ==
    \/ Parse
    \/ Render

SpecDataTypes == InitDataTypes /\ [][NextDataTypes]_vars

(***************************************************************************)
(* The codec: a typed value and the data type of its column are drawn at   *)
(* the start into verb; Encode leaves the bytes of the value in prev,      *)
(* Decode what decode makes of them, at offset 0, in ret.                  *)
(***************************************************************************)
ByteStrings == SeqsUpTo({1, 255}, 2)
Guids == {[i \in 1..16 |-> 0], [i \in 1..16 |-> IF i = 16 THEN 255 ELSE i]}
CodecStrings == SeqsUpTo({"a", "e_acute"}, 2)

\* the values of each storable type
ValuesOf(data_type) ==
    CASE data_type.t = "BLOBType" -> {BLOBValue(b) : b \in {x \in ByteStrings : Len(x) <= data_type.v}}
      [] data_type.t = "BooleanType" -> {Boolean(TRUE), Boolean(FALSE)}
      [] data_type.t = "CLOBType" ->
            {CLOBValue(s) : s \in {x \in CodecStrings : str_len(x) <= data_type.v}}
      [] data_type.t = "DateType" -> {DateValue(0, 0), DateValue(1, 500), DateValue(MaxInt, 999)}
      [] data_type.t = "Int8Type" -> {Int8Value(0), Int8Value(MaxInt), Int8Value(U8Max)}
      [] data_type.t = "Int16Type" ->
            {Int16Value(0), Int16Value(0 - 1), Int16Value(MaxInt), Int16Value(I16Max),
             Int16Value(0 - I16Max - 1)}
      [] data_type.t = "Int32Type" ->
            {Int32Value(0), Int32Value(0 - 1), Int32Value(MaxInt), Int32Value(I32Max),
             Int32Value(0 - I32Max - 1)}
      [] data_type.t = "Int64Type" ->
            {Int64Value(0), Int64Value(0 - 1), Int64Value(MaxInt), Int64Value(0 - MaxInt)}
      [] data_type.t = "Float32Type" -> {Float32Value(i.q) : i \in FloatImages}
      [] data_type.t = "Float64Type" -> {Float64Value(i.q) : i \in FloatImages}
      [] data_type.t = "RecordNumberType" -> {RecordNumber(id) : id \in 0..MaxRows}
      [] data_type.t = "StringType" ->
            {StringValue(s) : s \in {x \in CodecStrings : str_len(x) <= data_type.v}}
      [] data_type.t = "UUIDType" -> {UUIDValue(g) : g \in Guids}

StorableTypes ==
    {BooleanType, DateType, Int8Type, Int16Type, Int32Type, Int64Type, Float32Type,
     Float64Type, RecordNumberType, UUIDType}
    \cup {BLOBType(n) : n \in {2, MaxLen}}
    \cup {CLOBType(n) : n \in {2, MaxLen}}
    \cup {StringType(n) : n \in {2, MaxLen}}

\* a column of each type holds a value of the type, or Null
Fields ==
    {[name |-> "encode", data_type |-> d, value |-> v] :
        d \in StorableTypes, v \in {Null}}
    \cup UNION {{[name |-> "encode", data_type |-> d, value |-> v] : v \in ValuesOf(d)} :
                  d \in StorableTypes}

NotDecoded == [t |-> "None", v |-> 0]

InitCodec ==
    /\ overflow_checks = FALSE
    /\ lhs = Undefined
    /\ rhs = Undefined
    /\ binop = ""
    /\ out = NoOutcome
    /\ machine = Interpreter_new
    /\ script = Literal(Undefined)
    /\ answer = NoAnswer
    /\ before = Interpreter_new
    /\ rows = <<>>
    /\ verb \in Fields
    /\ ret = NotDecoded
    /\ prev = BeyondEnd

Encode ==
    /\ prev = BeyondEnd
    /\ prev' = encode(verb.value)
    /\ UNCHANGED <<overflow_checks, lhs, rhs, binop, out, machine, script, answer, before,
                   rows, verb, ret>>

Decode ==
    /\ prev # BeyondEnd
    /\ ret = NotDecoded
    /\ ret' = decode(verb.data_type, prev, 0)
    /\ UNCHANGED <<overflow_checks, lhs, rhs, binop, out, machine, script, answer, before,
                   rows, verb, prev>>

NextCodec ==
    \/ Encode
    \/ Decode

SpecCodec == InitCodec /\ [][NextCodec]_vars

(***************************************************************************)
(* The catalog of platform functions (platform.rs): the table of opcodes,  *)
(* the name and the package of each, and the lookup by (package, name).    *)
(* verb is the pair looked up, ret what find_function returned.            *)
(***************************************************************************)
PLATFORM_OPCODES ==
    <<"CalDate", "CalDateDay", "CalDateHour12", "CalDateHour24", "CalDateMinute",
      "CalDateMonth", "CalDateSecond", "CalDateYear", "IoFileCreate", "IoFileExists",
      "IoFileReadText", "IoStdErr", "IoStdOut", "OsCall", "OsClear", "OsCurrentDir",
      "OsEnv", "OxideAssert", "OxideCompile", "OxideEval", "OxideHelp", "OxideHistory",
      "OxideHome", "OxideMatches", "OxidePrintln", "OxideReset", "OxideTypeOf",
      "OxideUUID", "OxideVersion", "StrEndsWith", "StrFormat", "StrIndexOf", "StrJoin",
      "StrLeft", "StrLen", "StrRight", "StrSplit", "StrStartsWith", "StrSubstring",
      "StrToString", "ToolsCompact", "ToolsDescribe", "ToolsFetch", "ToolsReverse",
      "ToolsScan", "ToolsToArray", "ToolsToCSV", "ToolsToJSON", "ToolsToTable",
      "UtilBase64", "UtilMD5", "UtilToASCII", "UtilToF32", "UtilToF64", "UtilToI8",
      "UtilToI16", "UtilToI32", "UtilToI64", "UtilToI128", "UtilToU8", "UtilToU16",
      "UtilToU32", "UtilToU64", "UtilToU128", "WwwURLDecode", "WwwURLEncode", "WwwServe">>

\* the arms of get_name
NameOf ==
    [CalDate |-> "now", CalDateDay |-> "day_of", CalDateHour12 |-> "hour12",
     CalDateHour24 |-> "hour24", CalDateMinute |-> "minute_of",
     CalDateMonth |-> "month_of", CalDateSecond |-> "second_of",
     CalDateYear |-> "year_of", IoFileCreate |-> "create_file", IoFileExists |-> "exists",
     IoFileReadText |-> "read_text_file", IoStdErr |-> "stderr", IoStdOut |-> "stdout",
     OsCall |-> "call", OsClear |-> "clear", OsCurrentDir |-> "current_dir",
     OsEnv |-> "env", OxideAssert |-> "assert", OxideCompile |-> "compile",
     OxideEval |-> "eval", OxideHelp |-> "help", OxideHistory |-> "history",
     OxideHome |-> "home", OxideMatches |-> "matches", OxidePrintln |-> "println",
     OxideReset |-> "reset", OxideTypeOf |-> "type_of", OxideUUID |-> "uuid",
     OxideVersion |-> "version", StrEndsWith |-> "ends_with", StrFormat |-> "format",
     StrIndexOf |-> "index_of", StrJoin |-> "join", StrLeft |-> "left", StrLen |-> "len",
     StrRight |-> "right", StrSplit |-> "split", StrStartsWith |-> "starts_with",
     StrSubstring |-> "substring", StrToString |-> "to_string",
     ToolsCompact |-> "compact", ToolsDescribe |-> "describe", ToolsFetch |-> "fetch",
     ToolsReverse |-> "reverse", ToolsScan |-> "scan", ToolsToArray |-> "to_array",
     ToolsToCSV |-> "to_csv", ToolsToJSON |-> "to_json", ToolsToTable |-> "to_table",
     UtilBase64 |-> "base64", UtilMD5 |-> "md5", UtilToASCII |-> "to_ascii",
     UtilToF32 |-> "to_f32", UtilToF64 |-> "to_f64", UtilToI8 |-> "to_i8",
     UtilToI16 |-> "to_i16", UtilToI32 |-> "to_i32", UtilToI64 |-> "to_i64",
     UtilToI128 |-> "to_i128", UtilToU8 |-> "to_u8", UtilToU16 |-> "to_u16",
     UtilToU32 |-> "to_u32", UtilToU64 |-> "to_u64", UtilToU128 |-> "to_u128",
     WwwServe |-> "serve", WwwURLDecode |-> "url_decode", WwwURLEncode |-> "url_encode"]

\* a variant of get_name that gives str::right the name of str::left
get_name_left_for_right(op) ==
    IF op = "StrRight" THEN "left" ELSE NameOf[op]

get_name(op) == NameOf[op]

get_package_name(op) ==
    CASE op \in {"CalDateDay", "CalDateHour12", "CalDateHour24", "CalDateMinute",
                   "CalDateMonth", "CalDateSecond", "CalDateYear", "CalDate"} -> "cal"
      [] op \in {"IoFileCreate", "IoFileExists", "IoFileReadText", "IoStdErr",
                   "IoStdOut"} -> "io"
      [] op \in {"OxideAssert", "OxideCompile", "OxideEval", "OxideHelp",
                   "OxideHistory", "OxideHome", "OxideMatches", "OxidePrintln",
                   "OxideReset", "OxideTypeOf", "OxideUUID", "OxideVersion"} -> "oxide"
      [] op \in {"OsCall", "OsClear", "OsCurrentDir", "OsEnv"} -> "os"
      [] op \in {"StrEndsWith", "StrFormat", "StrIndexOf", "StrJoin", "StrLeft",
                   "StrLen", "StrRight", "StrSplit", "StrStartsWith", "StrSubstring",
                   "StrToString"} -> "str"
      [] op \in {"ToolsCompact", "ToolsDescribe", "ToolsFetch", "ToolsReverse",
                   "ToolsScan", "ToolsToArray", "ToolsToCSV", "ToolsToJSON",
                   "ToolsToTable"} -> "tools"
      [] op \in {"UtilBase64", "UtilMD5", "UtilToASCII", "UtilToF32", "UtilToF64",
                   "UtilToI8", "UtilToI16", "UtilToI32", "UtilToI64", "UtilToI128",
                   "UtilToU8", "UtilToU16", "UtilToU32", "UtilToU64", "UtilToU128"} -> "util"
      [] op \in {"WwwURLDecode", "WwwURLEncode", "WwwServe"} -> "www"

\* the name, the package and the opcode of the record get_info builds
get_info(op) ==
    [name |-> get_name(op), package_name |-> get_package_name(op), opcode |-> op]

\* Option<PlatformFunction>: the first entry of the table with the package and the name
find_function(package, name) ==
    IF \E i \in DOMAIN PLATFORM_OPCODES :
            /\ get_info(PLATFORM_OPCODES[i]).package_name = package
            /\ get_info(PLATFORM_OPCODES[i]).name = name
    THEN get_info(PLATFORM_OPCODES[
            CHOOSE i \in DOMAIN PLATFORM_OPCODES :
                /\ get_info(PLATFORM_OPCODES[i]).package_name = package
                /\ get_info(PLATFORM_OPCODES[i]).name = name
                /\ \A j \in 1..(i - 1) :
                        \/ get_info(PLATFORM_OPCODES[j]).package_name # package
                        \/ get_info(PLATFORM_OPCODES[j]).name # name])
    ELSE NoneValue

\* the packages and names looked up: those of the table, and one that no function has
PackageNames == {get_package_name(op) : op \in PlatformOps} \cup {"nope"}
FunctionNames == {get_name(op) : op \in PlatformOps} \cup {"nope"}

NotLookedUp == [st |-> "None", found |-> NoneValue]

InitCatalog ==
    /\ overflow_checks = FALSE
    /\ lhs = Undefined
    /\ rhs = Undefined
    /\ binop = ""
    /\ out = NoOutcome
    /\ machine = Interpreter_new
    /\ script = Literal(Undefined)
    /\ answer = NoAnswer
    /\ before = Interpreter_new
    /\ rows = <<>>
    /\ verb \in {[package |-> p, name |-> n] : p \in PackageNames, n \in FunctionNames}
    /\ ret = NotLookedUp
    /\ prev = <<>>

FindFunction ==
    /\ ret = NotLookedUp
    /\ ret' = [st |-> "Ok", found |-> find_function(verb.package, verb.name)]
    /\ UNCHANGED <<overflow_checks, lhs, rhs, binop, out, machine, script, answer, before,
                   rows, verb, prev>>

NextCatalog == FindFunction

SpecCatalog == InitCatalog /\ [][NextCatalog]_vars

(***************************************************************************)
(* Between, at the value level and in the evaluator: the three operands    *)
(* are drawn at the start, each of the two is applied to them once         *)
(***************************************************************************)
BetweenValues ==
    {Int64Value(0), Int64Value(1), Int64Value(5), Int32Value(3),
     Float64Value(Half), Float64Value(Whole(3)), StringValue("NYSE")}

InitBetween ==
    /\ overflow_checks = FALSE
    /\ lhs = Undefined
    /\ rhs = Undefined
    /\ binop = ""
    /\ out = NoOutcome
    /\ machine = Interpreter_new
    /\ script = Literal(Undefined)
    /\ answer = NoAnswer
    /\ before = Interpreter_new
    /\ rows = <<>>
    /\ verb \in [name : {"between"}, x : BetweenValues, lo : BetweenValues,
                 hi : BetweenValues]
    /\ ret = Undefined
    /\ prev = <<>>

\* x.between(lo, hi)
CallBetween ==
    /\ answer = NoAnswer
    /\ answer' = [st |-> "Ok", tv |-> between(verb.x, verb.lo, verb.hi)]
    /\ UNCHANGED <<overflow_checks, lhs, rhs, binop, out, machine, script, before,
                   rows, verb, ret, prev>>

\* the evaluation of Between(x, lo, hi)
EvaluateBetween ==
    /\ out = NoOutcome
    /\ out' = evaluate(new, Between(Literal(verb.x), Literal(verb.lo), Literal(verb.hi)),
                       overflow_checks)
    /\ UNCHANGED <<overflow_checks, lhs, rhs, binop, machine, script, answer, before,
                   rows, verb, ret, prev>>

NextBetween ==
    \/ CallBetween
    \/ EvaluateBetween

SpecBetween == InitBetween /\ [][NextBetween]_vars

(***************************************************************************)
(* The loops of the four verbs, one row id at a time: a verb takes the row *)
(* ids of the dataframe once, then visits them in its `for` loop; every    *)
(* turn of the loop is one step, and ret is the log of the turns taken.    *)
(***************************************************************************)
NoChange == [fields |-> <<>>, values |-> <<>>]

\* a variant of the loop that takes the row ids from the last one down
VisitId_backwards(ids, k) == ids[Len(ids) + 1 - k]

\* the row id of the k-th turn of `for id in ids`
VisitId(ids, k) == ids[k]

\* the body of the loop of a verb for one row id
turn(name, rc, id, ms, change, condition, chk) ==
    CASE name = "delete_where" ->
            CHOOSE d \in {Done(r.rc, r.value) :
                            r \in {delete_where_from(rc, 0, <<id>>, 1, ms, condition, chk)}} :
                TRUE
      [] name = "undelete_where" ->
            CHOOSE d \in {Done(r.rc, r.value) :
                            r \in {undelete_where_from(rc, 0, <<id>>, 1, ms, condition,
                                                       chk)}} : TRUE
      [] name = "overwrite_where" ->
            overwrite_where_from(rc, 0, <<id>>, 1, ms, change.fields, change.values,
                                 condition, chk)
      [] name = "update_where" ->
            update_where_from(rc, 0, <<id>>, 1, ms, change.fields, change.values,
                              condition, chk)

InitVisits ==
    /\ overflow_checks = FALSE
    /\ lhs = Undefined
    /\ rhs = Undefined
    /\ binop = ""
    /\ out = NoOutcome
    /\ machine = Scope
    /\ script = Literal(Undefined)
    /\ answer = NoAnswer
    /\ before = Scope
    /\ rows = <<>>
    /\ verb = [name |-> "", running |-> FALSE]
    /\ ret = <<>>
    /\ prev = <<>>

\* the table is filled and tombstoned between two verbs
VisitsAppendRow ==
    /\ ~verb.running
    /\ Len(rows) < MaxRows
    /\ \E fields \in RowContents : rows' = append_row(rows, fields).rc
    /\ verb' = [name |-> "append_row", running |-> FALSE]
    /\ ret' = <<>>
    /\ prev' = rows
    /\ UNCHANGED <<overflow_checks, lhs, rhs, binop, out, machine, script, answer, before>>

VisitsDeleteRow ==
    /\ ~verb.running
    /\ \E id \in 0..(Len(rows) - 1) : rows' = delete_row(rows, id).rc
    /\ verb' = [name |-> "delete_row", running |-> FALSE]
    /\ ret' = <<>>
    /\ prev' = rows
    /\ UNCHANGED <<overflow_checks, lhs, rhs, binop, out, machine, script, answer, before>>

\* the verb takes the row ids and enters its loop
Begin(name, changes) ==
    /\ ~verb.running
    /\ \E change \in changes, call \in ScopedCalls :
            verb' = [name |-> name, running |-> TRUE, change |-> change,
                     condition |-> call.condition, limit |-> call.limit,
                     ids |-> get_indices_with_limit(rows, call.limit), k |-> 1,
                     count |-> 0, st |-> "Ok"]
    /\ ret' = <<>>
    /\ prev' = rows
    /\ UNCHANGED <<overflow_checks, lhs, rhs, binop, out, machine, script, answer, before,
                   rows>>

BeginDeleteWhere == Begin("delete_where", {NoChange})
BeginUndeleteWhere == Begin("undelete_where", {NoChange})
BeginOverwriteWhere == Begin("overwrite_where", Changes)
BeginUpdateWhere == Begin("update_where", Changes)

\* one turn of the loop; an error ends the verb
Visit ==
    /\ verb.running
    /\ verb.k <= Len(verb.ids)
    /\ \E id \in {VisitId(verb.ids, verb.k)} :
       \E r \in {turn(verb.name, rows, id, machine, verb.change, verb.condition,
                      overflow_checks)} :
           /\ rows' = r.rc
           /\ ret' = Append(ret, [id |-> id, wrote |-> r.st = "Ok" /\ r.value.v > 0])
           /\ verb' = [verb EXCEPT !.k = @ + 1,
                                   !.count = IF r.st = "Ok" THEN @ + r.value.v ELSE @,
                                   !.st = r.st,
                                   !.running = r.st = "Ok"]
    /\ UNCHANGED <<overflow_checks, lhs, rhs, binop, out, machine, script, answer, before,
                   prev>>

\* the loop is over: the verb returns its count
Leave ==
    /\ verb.running
    /\ verb.k > Len(verb.ids)
    /\ verb' = [verb EXCEPT !.running = FALSE]
    /\ UNCHANGED <<overflow_checks, lhs, rhs, binop, out, machine, script, answer, before,
                   rows, ret, prev>>

NextVisits ==
    \/ VisitsAppendRow
    \/ VisitsDeleteRow
    \/ BeginDeleteWhere
    \/ BeginUndeleteWhere
    \/ BeginOverwriteWhere
    \/ BeginUpdateWhere
    \/ Visit
    \/ Leave

SpecVisits == InitVisits /\ [][NextVisits]_vars

(***************************************************************************)
(* WebSocket sessions (websockets.rs).  Every connection has an actor that *)
(* owns an interpreter.  Per connection: rows is the log of the frames the *)
(* client has sent, script the frames still on their way to the actor,     *)
(* machine the machine of the actor's interpreter, answer the log of the   *)
(* frames the actor has transmitted, ret the values the client has read    *)
(* and verb the state of the session; prev is the order in which the       *)
(* actors have handled frames.                                             *)
(***************************************************************************)
Connections == {"a", "b"}

Frame(kind, body) == [kind |-> kind, body |-> body]

\* ByteCodeCompiler is outside the source: a serialized tree or value is the tree or
\* value under a tag
ByteCodeCompiler_encode(model) == <<"bytes", model>>
ByteCodeCompiler_decode(bytes) == bytes[2]

\* OxideWebSocketServer::new
OxideWebSocketServer_new == Interpreter_new

\* transmit: the value as one binary frame
transmit(value) == <<Frame("Binary", ByteCodeCompiler_encode(value))>>

\* a variant of the write to the actor's interpreter that writes to every actor
with_interpreter_of_all(interpreters, connection, ms) ==
    [c \in DOMAIN interpreters |-> ms]

\* self.interpreter of the actor of the connection after a call
with_interpreter(interpreters, connection, ms) ==
    [interpreters EXCEPT ![connection] = ms]

\* what the arms for Text and Binary do with the result of the interpreter: the value
\* or the error as a value is transmitted; a panic unwinds the handler
respond(r) ==
    CASE r.answer.st = "Ok" ->
            [st |-> "open", machine |-> r.machine, frames |-> transmit(r.answer.tv)]
      [] r.answer.st = "Err" ->
            [st |-> "open", machine |-> r.machine,
             frames |-> transmit(ErrorValue(r.answer.tv.v))]
      [] OTHER -> [st |-> "aborted", machine |-> r.machine, frames |-> <<>>]

\* StreamHandler::handle: the machine of the interpreter afterwards and the frames sent
handle(ms, msg, chk) ==
    CASE msg.kind = "ProtocolError" ->
            [st |-> "open", machine |-> ms, frames |-> transmit(ErrorValue("protocol error"))]
      [] msg.kind = "Ping" ->
            [st |-> "open", machine |-> ms, frames |-> <<Frame("Pong", msg.body)>>]
      [] msg.kind = "Pong" ->
            [st |-> "open", machine |-> ms, frames |-> <<Frame("Ping", msg.body)>>]
      [] msg.kind = "Text" ->
            CHOOSE h \in {respond(r) : r \in {Interpreter_evaluate(ms, msg.body, chk)}} : TRUE
      [] msg.kind = "Binary" ->
            CHOOSE h \in {respond(r) :
                            r \in {Interpreter_evaluate(ms, ByteCodeCompiler_decode(msg.body),
                                                        chk)}} : TRUE
      [] OTHER -> [st |-> "open", machine |-> ms, frames |-> <<>>]

\* OxideWebSocketClient::read_next on the next frame of the stream
read_next(message) ==
    CASE message.kind = "Binary" -> ByteCodeCompiler_decode(message.body)
      [] message.kind = "Text" -> StringValue(message.body)
      [] OTHER -> ErrorValue("Unexpected result")

\* the frames a client sends: assignments, a reference as a serialized tree, a script
\* that returns an error, a code block with a failing statement, and a broken frame
Requests ==
    {Frame("Text", SetVariable("x", Literal(Int64Value(n)))) : n \in {1, 5}}
    \cup {Frame("Binary", ByteCodeCompiler_encode(Variable("x"))),
          Frame("Text", Unhandled("While")),
          Frame("Text", CodeBlock(<<Unhandled("While")>>)),
          Frame("Ping", Literal(Undefined)),
          Frame("ProtocolError", Literal(Undefined))}

\* the number of frames sent on all connections
RECURSIVE Sent(_)
Sent(S) == IF S = {} THEN 0
           ELSE LET c == CHOOSE c \in S : TRUE IN Len(rows[c]) + Sent(S \ {c})

InitSessions ==
    /\ overflow_checks = FALSE
    /\ lhs = Undefined
    /\ rhs = Undefined
    /\ binop = ""
    /\ out = NoOutcome
    /\ machine = [c \in Connections |-> OxideWebSocketServer_new]
    /\ script = [c \in Connections |-> <<>>]
    /\ answer = [c \in Connections |-> <<>>]
    /\ before = Interpreter_new
    /\ rows = [c \in Connections |-> <<>>]
    /\ verb = [c \in Connections |-> "open"]
    /\ ret = [c \in Connections |-> <<>>]
    /\ prev = <<>>

\* a client sends a frame: send_text_message, send_binary_message
Send ==
    /\ Sent(Connections) < MaxMessages
    /\ \E c \in Connections, msg \in Requests :
            /\ rows' = [rows EXCEPT ![c] = Append(@, msg)]
            /\ script' = [script EXCEPT ![c] = Append(@, msg)]
    /\ UNCHANGED <<overflow_checks, lhs, rhs, binop, out, machine, answer, before, verb, ret,
                   prev>>

\* the actor of a connection handles the next frame of its stream
Handle ==
    \E c \in Connections :
        /\ verb[c] = "open"
        /\ script[c] # <<>>
        /\ \E h \in {handle(machine[c], Head(script[c]), overflow_checks)} :
                /\ machine' = with_interpreter(machine, c, h.machine)
                /\ answer' = [answer EXCEPT ![c] = @ \o h.frames]
                /\ verb' = [verb EXCEPT ![c] = h.st]
        /\ script' = [script EXCEPT ![c] = Tail(@)]
        /\ prev' = Append(prev, c)
        /\ UNCHANGED <<overflow_checks, lhs, rhs, binop, out, before, rows, ret>>

\* a client reads the response to a request it has sent; when the session is over
\* the stream has ended and read_next returns Undefined
Read ==
    \E c \in Connections :
        /\ Len(ret[c]) < Len(rows[c])
        /\ \/ /\ Len(ret[c]) < Len(answer[c])
              /\ ret' = [ret EXCEPT ![c] = Append(@, read_next(answer[c][Len(ret[c]) + 1]))]
           \/ /\ Len(ret[c]) >= Len(answer[c])
              /\ verb[c] = "aborted"
              /\ ret' = [ret EXCEPT ![c] = Append(@, Undefined)]
        /\ UNCHANGED <<overflow_checks, lhs, rhs, binop, out, machine, script, answer, before,
                       rows, verb, prev>>

NextSessions ==
    \/ Send
    \/ Handle
    \/ Read

SpecSessions == InitSessions /\ [][NextSessions]_vars

(***************************************************************************)
(* The control frames of a session.  The peer of a connection starts one   *)
(* exchange with a single Ping or Pong and answers every Ping it receives  *)
(* with a Pong.  Per connection: script is the frames on their way to the  *)
(* actor, answer the frames on their way to the peer, ret the last frame   *)
(* the actor handled with the frames it sent for it, and verb tells        *)
(* whether the peer has sent its frame.                                    *)
(***************************************************************************)
ControlFrames == {Frame(kind, body) : kind \in {"Ping", "Pong"}, body \in {"k1", "k2"}}

NoExchange == [received |-> Frame("None", ""), sent |-> <<>>]

\* the peer: a Pong for a Ping, nothing for any other frame
peer(msg) == IF msg.kind = "Ping" THEN <<Frame("Pong", msg.body)>> ELSE <<>>

InitControl ==
    /\ overflow_checks = FALSE
    /\ lhs = Undefined
    /\ rhs = Undefined
    /\ binop = ""
    /\ out = NoOutcome
    /\ machine = [c \in Connections |-> OxideWebSocketServer_new]
    /\ script = [c \in Connections |-> <<>>]
    /\ answer = [c \in Connections |-> <<>>]
    /\ before = Interpreter_new
    /\ rows = <<>>
    /\ verb = [c \in Connections |-> "idle"]
    /\ ret = [c \in Connections |-> NoExchange]
    /\ prev = <<>>

\* the peer sends the frame that starts the exchange
PeerSend ==
    \E c \in Connections, msg \in ControlFrames :
        /\ verb[c] = "idle"
        /\ verb' = [verb EXCEPT ![c] = "started"]
        /\ script' = [script EXCEPT ![c] = Append(@, msg)]
        /\ UNCHANGED <<overflow_checks, lhs, rhs, binop, out, machine, answer, before, rows,
                       ret, prev>>

\* the actor of a connection handles the next frame of its stream
HandleControl ==
    \E c \in Connections :
        /\ script[c] # <<>>
        /\ \E h \in {handle(machine[c], Head(script[c]), overflow_checks)} :
                /\ machine' = with_interpreter(machine, c, h.machine)
                /\ answer' = [answer EXCEPT ![c] = @ \o h.frames]
                /\ ret' = [ret EXCEPT ![c] = [received |-> Head(script[c]),
                                              sent |-> h.frames]]
        /\ script' = [script EXCEPT ![c] = Tail(@)]
        /\ UNCHANGED <<overflow_checks, lhs, rhs, binop, out, before, rows, verb, prev>>

\* the peer receives the next frame the actor has sent, and answers it
PeerReceive ==
    \E c \in Connections :
        /\ answer[c] # <<>>
        /\ answer' = [answer EXCEPT ![c] = Tail(@)]
        /\ script' = [script EXCEPT ![c] = @ \o peer(Head(answer[c]))]
        /\ UNCHANGED <<overflow_checks, lhs, rhs, binop, out, machine, before, rows, verb,
                       ret, prev>>

NextControl ==
    \/ PeerSend
    \/ HandleControl
    \/ PeerReceive

SpecControl == InitControl /\ [][NextControl]_vars

\* the actor handles every frame of its stream, and the peer every frame sent to it
SpecControlFair == SpecControl /\ WF_vars(HandleControl) /\ WF_vars(PeerReceive)

(***************************************************************************)
(* TokenSlice (token_slice.rs): a vector of tokens and a cursor.  A token  *)
(* is [kind, text, start]; a method returns [ts, value, st, reads]: the    *)
(* slice afterwards, what it returned, Ok or Panic, and the indices of the *)
(* vector it has read.  An Option<&Token> is the token or NoneValue.       *)
(* In the specification rows is the token vector, ret the cursor, before   *)
(* and prev the two before the last call, verb the last call, out its      *)
(* outcome and answer what the call before it was and returned.            *)
(***************************************************************************)
Lexemes == {"(", ")", ",", "A"}

TokenAt(lexeme, start) ==
    [kind |-> token_of(lexeme).kind, text |-> lexeme, start |-> start]
get_raw_value(token) == token.text

\* TokenSlice::new
TokenSlice_new(tokens) == [tokens |-> tokens, pos |-> 0]

\* tokens[i] of the Rust vector; an index outside the vector panics
InRange(ts, i) == 0 <= i /\ i < Len(ts.tokens)
Returned36(ts, value, reads) ==
    [ts |-> ts, value |-> value, st |-> "Ok", reads |-> reads]
OutOfBounds(ts, reads) ==
    [ts |-> ts, value |-> Panicked, st |-> "Panic", reads |-> reads]

\* f: fn(&Token) -> bool, as the set of the lexemes it accepts
is_atom == {"A"}
is_operator == {"(", ")", ","}
is_closing == {")"}
Predicates == {is_atom, is_operator, is_closing}

get_token(ts) == IF ts.pos < Len(ts.tokens) THEN ts.tokens[ts.pos + 1] ELSE NoneValue
has_next(ts) == ts.pos + 1 < Len(ts.tokens)
has_previous(ts) == ts.pos > 0

next(ts) ==
    IF has_next(ts)
    THEN LET n == ts.pos + 1
         IN  IF InRange(ts, n)
             THEN Returned36([ts EXCEPT !.pos = n], ts.tokens[n + 1], {n})
             ELSE OutOfBounds(ts, {n})
    ELSE Returned36(ts, NoneValue, {})

\* a variant of previous that returns the token the cursor has left
previous_returning_the_left(ts) ==
    IF has_previous(ts)
    THEN Returned36([ts EXCEPT !.pos = ts.pos - 1],
                    IF ts.pos < Len(ts.tokens) THEN ts.tokens[ts.pos + 1]
                    ELSE ts.tokens[ts.pos], {ts.pos})
    ELSE Returned36(ts, NoneValue, {})

previous(ts) ==
    IF has_previous(ts)
    THEN LET n == ts.pos - 1
         IN  IF InRange(ts, n)
             THEN Returned36([ts EXCEPT !.pos = n], ts.tokens[n + 1], {n})
             ELSE OutOfBounds(ts, {n})
    ELSE Returned36(ts, NoneValue, {})

take(ts) ==
    LET n == ts.pos
    IN  IF n < Len(ts.tokens)
        THEN Returned36([ts EXCEPT !.pos = n + 1], ts.tokens[n + 1], {n})
        ELSE Returned36(ts, NoneValue, {})

\* the loop of scan_to and scan_until: the first position from pos on that is the end of
\* the vector or holds a token f accepts
RECURSIVE scan_from(_, _, _)
scan_from(ts, pos, f) ==
    IF pos < Len(ts.tokens) /\ ~(get_raw_value(ts.tokens[pos + 1]) \in f)
    THEN scan_from(ts, pos + 1, f)
    ELSE pos

\* the indices the loop has read when it stopped at pos
Scanned(ts, pos) == {i \in ts.pos..pos : i < Len(ts.tokens)}

\* a variant of scan_to that moves the cursor past the token found
scan_to_past_the_match(ts, f) ==
    LET pos == scan_from(ts, ts.pos, f)
    IN  IF pos > ts.pos /\ pos < Len(ts.tokens)
        THEN Returned36([ts EXCEPT !.pos = pos + 1], SubSeq(ts.tokens, ts.pos + 1, pos),
                        Scanned(ts, pos))
        ELSE Returned36(ts, <<>>, Scanned(ts, pos))

scan_to(ts, f) ==
    LET pos == scan_from(ts, ts.pos, f)
    IN  IF pos > ts.pos /\ pos < Len(ts.tokens)
        THEN Returned36([ts EXCEPT !.pos = pos], SubSeq(ts.tokens, ts.pos + 1, pos),
                        Scanned(ts, pos))
        ELSE Returned36(ts, <<>>, Scanned(ts, pos))

scan_until(ts, f) ==
    LET pos == scan_from(ts, ts.pos, f)
    IN  IF pos > ts.pos /\ pos < Len(ts.tokens)
        THEN Returned36([ts EXCEPT !.pos = pos], SubSeq(ts.tokens, ts.pos + 1, pos + 1),
                        Scanned(ts, pos))
        ELSE Returned36(ts, <<>>, Scanned(ts, pos))

\* the loop of capture from pos on: [pos, tokens] when it stops; delim, an
\* Option<&str>, is <<>> for None and <<text>> for Some(text)
RECURSIVE capture_from(_, _, _, _, _)
capture_from(inputs, pos, tokens, end, delim) ==
    IF pos < Len(inputs) /\ get_raw_value(inputs[pos + 1]) # end
    THEN LET after == pos + 1
         IN  capture_from(inputs,
                          IF delim # <<>> /\ after < Len(inputs)
                                /\ get_raw_value(inputs[after + 1]) = delim[1]
                          THEN after + 1 ELSE after,
                          Append(tokens, inputs[pos + 1]), end, delim)
    ELSE [pos |-> pos, tokens |-> tokens]

\* inputs[pos] is read before anything is known about pos
capture(ts, start, end, delim) ==
    IF ~InRange(ts, ts.pos) THEN OutOfBounds(ts, {ts.pos})
    ELSE IF get_raw_value(ts.tokens[ts.pos + 1]) = start
    THEN LET r == capture_from(ts.tokens, ts.pos + 1, <<>>, end, delim)
         IN  Returned36([ts EXCEPT !.pos = r.pos], r.tokens,
                        {i \in ts.pos..r.pos : i < Len(ts.tokens)})
    ELSE Returned36(ts, <<>>, {ts.pos})

\* the token vectors of the model: every sequence of lexemes up to the bound
TokenVectors ==
    UNION {{[i \in 1..n |-> TokenAt(text[i], i - 1)] : text \in [1..n -> Lexemes]} :
           n \in 0..MaxTokens}

NoCallYet == [st |-> "None", value |-> NoneValue, reads |-> {}]
NoCallBefore == [name |-> "none", value |-> NoneValue]

InitTokenSlice ==
    /\ overflow_checks = FALSE
    /\ lhs = Undefined
    /\ rhs = Undefined
    /\ binop = ""
    /\ out = NoCallYet
    /\ machine = Interpreter_new
    /\ script = Literal(Undefined)
    /\ answer = NoCallBefore
    /\ rows \in TokenVectors
    /\ before = rows
    /\ verb = NoVerb
    /\ ret = TokenSlice_new(rows).pos
    /\ prev = 0

\* one call of a method on the slice; a panic ends the program
CallOn(call, r) ==
    /\ out.st # "Panic"
    /\ verb' = call
    /\ out' = [st |-> r.st, value |-> r.value, reads |-> r.reads]
    /\ rows' = r.ts.tokens
    /\ ret' = r.ts.pos
    /\ before' = rows
    /\ prev' = ret
    /\ answer' = IF verb.name = "take" THEN [name |-> "take", value |-> out.value]
                 ELSE NoCallBefore
    /\ UNCHANGED <<overflow_checks, lhs, rhs, binop, machine, script>>

Slice == [tokens |-> rows, pos |-> ret]

CallTake == CallOn([name |-> "take"], take(Slice))
CallNext == CallOn([name |-> "next"], next(Slice))
CallPrevious == CallOn([name |-> "previous"], previous(Slice))
CallScanTo == \E f \in Predicates : CallOn([name |-> "scan_to", f |-> f], scan_to(Slice, f))
CallScanUntil ==
    \E f \in Predicates : CallOn([name |-> "scan_until", f |-> f], scan_until(Slice, f))
CallCapture ==
    \E delim \in {<<>>, <<",">>} :
        CallOn([name |-> "capture", start |-> "(", end |-> ")", delim |-> delim],
               capture(Slice, "(", ")", delim))

NextTokenSlice ==
    \/ CallTake
    \/ CallNext
    \/ CallPrevious
    \/ CallScanTo
    \/ CallScanUntil
    \/ CallCapture

SpecTokenSlice == InitTokenSlice /\ [][NextTokenSlice]_vars

(***************************************************************************)
(* Properties of the stored table.  prev is the table before the last      *)
(* verb, rows the table after it, ret the value the verb returned.         *)
(***************************************************************************)
ActiveCount(rc) == Len(SelectSeq(rc, LAMBDA r : r.active))
ActiveFields(rc) == [k \in 1..Len(read_active_rows(rc)) |-> read_active_rows(rc)[k].fields]
Visited(rc, limit) == {get_indices_with_limit(rc, limit)[k] : k \in 1..Len(get_indices_with_limit(rc, limit))}
Satisfies(rc, id, condition) == is_true(Scope, read_row(rc, id).row, condition, overflow_checks)

\* row id is not returned by the iteration but is still in the store, with its fields
Hidden(id) ==
    /\ \A k \in 1..Len(read_active_rows(rows)) : read_active_rows(rows)[k].id # id
    /\ Len(rows) = Len(prev)
    /\ read_row(rows, id).row = read_row(prev, id).row

\* row id is returned by the iteration with the id and the fields it had
Returned(id) ==
    \E k \in 1..Len(read_active_rows(rows)) :
        read_active_rows(rows)[k] = read_row(prev, id).row

\* C1: an active row that delete_row(id) tombstones, or that delete_where visits with a
\* condition the row satisfies, is no longer returned when iterating the active rows
\* but is still physically present; a tombstoned row that undelete_row(id) restores,
\* or that undelete_where visits with a condition the row satisfies, is returned again
\* with the same id and the same field values.  (A delete keeps the stored row as it
\* is and an undelete returns it as stored, so a delete followed by an undelete
\* returns the row as it was.)
C1_TombstoneVisibility ==
    /\ verb.name = "delete_row" => (prev[verb.id + 1].active => Hidden(verb.id))
    /\ verb.name = "delete_where" =>
            \A id \in Visited(prev, verb.limit) :
                prev[id + 1].active /\ Satisfies(prev, id, verb.condition) => Hidden(id)
    /\ verb.name = "undelete_row" => (~prev[verb.id + 1].active => Returned(verb.id))
    /\ verb.name = "undelete_where" =>
            \A id \in Visited(prev, verb.limit) :
                ~prev[id + 1].active /\ Satisfies(prev, id, verb.condition) => Returned(id)

\* C1 case: undelete_where with a condition on a column has restored a tombstoned row
C1_Witness ==
    /\ verb.name = "undelete_where"
    /\ verb.condition = Binary("Equal", Variable("exchange"), Literal(StringValue("NYSE")))
    /\ ret = RowsAffected(1)
    /\ \E id \in 0..(Len(prev) - 1) :
            /\ ~prev[id + 1].active
            /\ rows[id + 1].active
            /\ rows[id + 1].fields = <<StringValue("ABC"), StringValue("NYSE")>>

\* the store holds exactly as many rows as were active in before, none tombstoned,
\* with ids 0 .. len - 1
Dense(rc, n) ==
    /\ len(rc) = n
    /\ \A k \in 1..Len(rc) : rc[k].active /\ rc[k].id = k - 1

Occurrences(rc) ==
    [f \in RowContents |-> Cardinality({k \in 1..Len(rc) : rc[k].active /\ rc[k].fields = f})]

C4_DeleteWhereNoPredicate ==
    verb.name = "delete_where" /\ verb.condition = NoneValue /\ verb.limit = Undefined =>
        /\ \A k \in 1..Len(rows) : ~rows[k].active
        /\ ret = RowsAffected(ActiveCount(prev))
        /\ read_active_rows(rows) = <<>>
        /\ len(rows) = len(prev)

\* C4 case: the call has tombstoned two active rows of a table that had a tombstone
C4_Witness ==
    /\ verb.name = "delete_where" /\ verb.condition = NoneValue /\ verb.limit = Undefined
    /\ Len(prev) = MaxRows
    /\ ActiveCount(prev) = MaxRows - 1
    /\ ret = RowsAffected(MaxRows - 1)

(***************************************************************************)
(* Properties of the operators                                             *)
(***************************************************************************)
Unknown(a) == a = Undefined \/ a = Null
Absorbed(a, b) == IF a = Undefined \/ b = Undefined THEN Undefined ELSE Null
MixedIntFloat(a, b) ==
    \/ a.t \in IntKinds /\ b.t \in FloatKinds
    \/ a.t \in FloatKinds /\ b.t \in IntKinds

C6_DivisionByZeroYieldsMax ==
    (binop = "Divide" /\ lhs.t \in IntKinds /\ rhs = [t |-> lhs.t, v |-> 0]) =>
        /\ out.st = "Ok"
        /\ out.tv.t = lhs.t
        /\ out.tv.v >= (IF lhs.t = "Int64Value" THEN I32Max ELSE MaxOf(lhs.t))
        /\ lhs.t # "Int64Value" => out.tv.v = MaxOf(lhs.t)

\* C7 as stated: +, -, * and / return a typed value for every pair of operands and
\* never abort; an unsupported pair yields Undefined.
C7_ArithmeticNeverAborts ==
    binop \in ArithmeticNodes =>
        /\ out.st = "Ok"
        /\ (~Unknown(lhs) /\ ~Unknown(rhs) /\ lhs.t # rhs.t) => out.tv = Undefined

\* C8 as stated: integers of one kind yield that kind, and an integer paired with a
\* float yields a float.
C8_WideningRules ==
    (binop \in ArithmeticNodes /\ out.st = "Ok") =>
        /\ (lhs.t = rhs.t /\ lhs.t \in IntKinds) => out.tv.t = lhs.t
        /\ MixedIntFloat(lhs, rhs) => out.tv.t \in FloatKinds

\* C8 as amended: integers of one kind yield that kind (when a result is produced),
\* floats of one kind yield that kind, and an integer paired with a float yields
\* Undefined: there is no widening.
C8_MatchingKindsOnly ==
    (binop \in ArithmeticNodes /\ out.st = "Ok") =>
        /\ (lhs.t = rhs.t /\ lhs.t \in IntKinds \cup FloatKinds) => out.tv.t = lhs.t
        /\ MixedIntFloat(lhs, rhs) => out.tv = Undefined

C8_Witness ==
    /\ binop = "Plus" /\ out.st = "Ok"
    /\ lhs = Int64Value(5) /\ rhs = Float64Value(Half)
    /\ out.tv = Undefined

(***************************************************************************)
(* Properties of the machine and the interpreter                           *)
(***************************************************************************)
RECURSIVE HasAssignment(_)
HasAssignment(e) ==
    CASE e.node = "SetVariable" -> TRUE
      [] e.node \in BinaryNodes -> HasAssignment(e.a) \/ HasAssignment(e.b)
      [] e.node = "CodeBlock" -> \E i \in DOMAIN e.ops : HasAssignment(e.ops[i])
      [] e.node = "Tuple" -> \E i \in DOMAIN e.values : HasAssignment(e.values[i])
      [] OTHER -> FALSE

\* what Variable(name) yields on the machine ms
Reading(ms, name) == IF name \in DOMAIN ms.variables THEN ms.variables[name] ELSE Undefined

\* C9 as stated: SetVariable(name, e) binds the value of e to name in the returned
\* machine and returns Ack as its own value.
C9_SetVariableReturnsAck ==
    (script.node = "SetVariable" /\ answer.st = "Ok") =>
        /\ Reading(machine, script.name) = evaluate(before, script.e, overflow_checks).tv
        /\ answer.tv = Ack

\* C10: the interpreter keeps the machine of a successful call: an assignment is
\* visible afterwards (x := 5; x := x + 1; x yields 6), a variable reads as the
\* machine binds it, and a call without an assignment leaves every binding unchanged.
C10_StateRetention ==
    answer.st = "Ok" =>
        /\ script.node = "SetVariable" =>
              /\ script.name \in DOMAIN machine.variables
              /\ machine.variables[script.name] =
                    evaluate(before, script.e, overflow_checks).tv
              /\ \A n \in DOMAIN before.variables :
                    (n # script.name /\ ~HasAssignment(script.e)) =>
                        Reading(machine, n) = before.variables[n]
        /\ script.node = "Variable" => answer.tv = Reading(machine, script.name)
        /\ (script = Binary("Plus", Variable("x"), Literal(Int64Value(1)))
              /\ Reading(before, "x") = Int64Value(5)) => answer.tv = Int64Value(6)
        /\ ~HasAssignment(script) => machine.variables = before.variables

C10_Witness ==
    /\ script = Variable("x") /\ answer.st = "Ok"
    /\ answer.tv = Int64Value(6)
    /\ before.variables["x"] = Int64Value(6)

\* the expression is one the evaluator has no arm for, or one whose evaluation fails
Failing(e) == e.node \in {"Unhandled", "Delete"}

\* C11 as stated: an expression the evaluator does not handle, or whose evaluation
\* fails, yields an Error value and does not abort: alone its result is an Error value,
\* and inside a code block or an array the other statements are still evaluated and
\* the caller receives a result.
C11_ErrorsDoNotAbort ==
    answer.st # "None" =>
        /\ Failing(script) => (answer.st = "Ok" /\ answer.tv.t = "ErrorValue")
        /\ (script.node = "CodeBlock" /\ \E i \in DOMAIN script.ops : Failing(script.ops[i])) =>
                (answer.st = "Ok" /\ answer.tv = Reading(machine, "y"))
        /\ (script.node = "Tuple" /\ \E i \in DOMAIN script.values : Failing(script.values[i])) =>
                (answer.st = "Ok" /\ answer.tv.t = "Array")

MachineMethods == {"push", "pop", "set", "with_variable", "evaluate"}

\* C12: evaluate, push, pop, set and with_variable leave the machine they are called on
\* as it was and return a new machine: push the machine with the value on top of the
\* stack, pop the machine without its top, set and with_variable the machine with the
\* one binding added, all else equal; evaluating an expression without a SetVariable
\* returns a machine whose variables (and stack) equal those of the machine evaluated.
C12_MachineIsPurelyFunctional ==
    script.node \in MachineMethods =>
        /\ machine = before
        /\ script.node = "push" =>
              /\ out.ms.stack = Append(before.stack, script.value)
              /\ out.ms.variables = before.variables
        /\ script.node = "pop" =>
              /\ out.ms.variables = before.variables
              /\ before.stack = <<>> => (out.ms.stack = <<>> /\ out.tv = NoneValue)
              /\ before.stack # <<>> => before.stack = Append(out.ms.stack, out.tv)
        /\ script.node \in {"set", "with_variable"} =>
              /\ out.ms.stack = before.stack
              /\ Reading(out.ms, script.name) = script.value
              /\ \A n \in Names \ {script.name} : Reading(out.ms, n) = Reading(before, n)
        /\ (script.node = "evaluate" /\ out.st = "Ok") =>
              /\ out.ms.stack = before.stack
              /\ ~HasAssignment(script.expression) => out.ms.variables = before.variables

\* C12 case: push on a machine that holds a variable and a value on its stack has
\* returned the longer stack and left the caller's machine with the shorter one
C12_Witness ==
    /\ script.node = "push"
    /\ Len(machine.stack) = 1
    /\ Len(out.ms.stack) = MaxStack
    /\ Reading(machine, "x") = Int64Value(5)
    /\ Reading(out.ms, "x") = Int64Value(5)

\* what the predicate convention makes of each condition of the model on a row with
\* the given fields: no condition matches, exchange = "NYSE" matches the rows of that
\* exchange, the literal true matches; a string (symbol), Undefined (volume, bound
\* nowhere), Null and an evaluation error do not match
Matches(condition, fields) ==
    \/ condition = NoneValue
    \/ condition = Literal(Boolean(TRUE))
    \/ /\ condition = Binary("Equal", Variable("exchange"), Literal(StringValue("NYSE")))
       /\ fields[2] = StringValue("NYSE")

ScopedVerbs == {"select", "delete_where", "undelete_where", "overwrite_where", "update_where"}

\* the rows of rc, in order, that are active and of the exchange
OfExchange(rc, exchange) ==
    [k \in 1..Len(SelectSeq(rc, LAMBDA r : r.active /\ r.fields[2] = exchange)) |->
        [id |-> SelectSeq(rc, LAMBDA r : r.active /\ r.fields[2] = exchange)[k].id,
         fields |-> SelectSeq(rc, LAMBDA r : r.active /\ r.fields[2] = exchange)[k].fields]]

\* C14: inside a predicate the columns of the current row are bound by name and shadow
\* the caller's variable of the same name (the caller binds exchange to "OTC", and
\* exchange = "NYSE" selects, deletes and restores the rows whose column is "NYSE");
\* after select, delete_where, undelete_where, overwrite_where or update_where return,
\* the caller's machine is the machine from before the verb: no column is bound that
\* was not bound before, and exchange has its value from before, also when the
\* predicate assigns to it.
C14_RowBindingsAreTemporary ==
    verb.name \in ScopedVerbs =>
        /\ machine = before
        /\ DOMAIN machine.variables = {"exchange"}
        /\ machine.variables["exchange"] = StringValue("OTC")
        /\ (verb.condition = Binary("Equal", Variable("exchange"), Literal(StringValue("NYSE")))) =>
              /\ verb.name = "select" => ret = ArrayOfRows(OfExchange(rows, StringValue("NYSE")))
              /\ verb.name = "delete_where" =>
                    \A k \in 1..Len(rows) :
                        rows[k].active = (prev[k].active /\ prev[k].fields[2] # StringValue("NYSE"))
              /\ verb.name = "undelete_where" =>
                    \A k \in 1..Len(rows) :
                        rows[k].active = (prev[k].active \/ prev[k].fields[2] = StringValue("NYSE"))

\* C14 case: a select with a predicate on exchange has returned a row of the exchange
\* NYSE while the caller's exchange is "OTC", before and after
C14_Witness ==
    /\ verb.name = "select"
    /\ verb.condition = Binary("Equal", Variable("exchange"), Literal(StringValue("NYSE")))
    /\ ret.t = "ArrayOfRows"
    /\ Len(ret.v) = MaxRows - 1
    /\ before.variables["exchange"] = StringValue("OTC")
    /\ machine.variables["exchange"] = StringValue("OTC")

(***************************************************************************)
(* Properties of the platform functions.  verb is the call, ret what it    *)
(* returned, machine the machine it was called with.                       *)
(***************************************************************************)
Called == ret.st # "None"

\* C15: a platform function called with a number of arguments that differs
\* from its declared parameter count returns
\* ErrorValue(ArgumentsMismatched(declared, supplied)) and the machine it was
\* given, and makes no call of its own
C15_AritiesAreChecked ==
    (Called /\ Len(verb.args) # get_parameter_count(verb.name))
        => /\ ret.st = "Ok"
           /\ ret.tv = ErrorValue(ArgumentsMismatched(get_parameter_count(verb.name),
                                                      Len(verb.args)))
           /\ ret.ms = machine
           /\ ret.hops = <<>>

\* the first and the last n characters of the text s
FirstChars(s, n) == SubSeq(s, 1, n)
LastChars(s, n) == SubSeq(s, Len(s) - n + 1, Len(s))

\* the last call was left or right on the text s with the count 0 - n, 0 < n <= len(s)
NegativeCount(name) ==
    /\ Called
    /\ verb.name = name
    /\ Len(verb.args) = 2
    /\ verb.args[1].t = "StringValue"
    /\ verb.args[2].t = "Number"
    /\ to_i64(verb.args[2].v) < 0
    /\ 0 - to_i64(verb.args[2].v) <= Len(verb.args[1].v)

\* C16: for a string s and 0 < n <= len(s), left(s, -n) returns what
\* right(s, n) returns, the last n characters of s, and right(s, -n) what
\* left(s, n) returns, the first n characters; the call delegates once, with
\* a count that is not negative, and returns
C16_NegativeCountsDelegate ==
    /\ NegativeCount("StrLeft") =>
          LET s == verb.args[1].v
              n == 0 - to_i64(verb.args[2].v) IN
          /\ ret.st = "Ok"
          /\ ret.tv = StringValue(LastChars(s, n))
          /\ ret.tv = do_str_right(machine, verb.args[1], Number(I64Value(n))).tv
          /\ Len(ret.hops) = 2
          /\ ret.hops[2].fn = "do_str_right" /\ to_i64(ret.hops[2].n_chars.v) >= 0
    /\ NegativeCount("StrRight") =>
          LET s == verb.args[1].v
              n == 0 - to_i64(verb.args[2].v) IN
          /\ ret.st = "Ok"
          /\ ret.tv = StringValue(FirstChars(s, n))
          /\ ret.tv = do_str_left(machine, verb.args[1], Number(I64Value(n))).tv
          /\ Len(ret.hops) = 2
          /\ ret.hops[2].fn = "do_str_left" /\ to_i64(ret.hops[2].n_chars.v) >= 0

\* positional substitution: the placeholders of the template, left to right,
\* take the texts of the arguments in order; what is left over of either stays
RECURSIVE Substituted(_, _)
Substituted(template, arguments) ==
    LET pos == find_placeholder(template) IN
    IF pos < 0 \/ arguments = <<>> THEN template
    ELSE SubSeq(template, 1, pos) \o unwrap_value(Head(arguments))
         \o Substituted(SubSeq(template, pos + 3, Len(template)), Tail(arguments))

\* C17: format(template, a1, .., ak) returns the template with its i-th
\* placeholder, counted left to right in the template, replaced by the text
\* of a_i for i <= k; later placeholders stay and surplus arguments are
\* ignored; the call returns for every input
C17_FormatIsPositional ==
    (Called /\ verb.name = "StrFormat" /\ verb.args # <<>>
          /\ verb.args[1].t = "StringValue")
        => /\ ret.st = "Ok"
           /\ ret.tv = StringValue(Substituted(verb.args[1].v, Tail(verb.args)))

\* the component of a local date and time that an extractor is named after
Component(plat, datetime) ==
    CASE plat = "CalDateDay" -> datetime.day
      [] plat = "CalDateHour24" -> datetime.hour
      [] plat = "CalDateMinute" -> datetime.minute
      [] plat = "CalDateMonth" -> datetime.month
      [] plat = "CalDateSecond" -> datetime.second
      [] plat = "CalDateYear" -> datetime.year

\* C18: day_of, hour24, minute_of, month_of, second_of and year_of return the
\* component of their Date argument they are named after, and a DateExpected
\* error for an argument that is not a Date
C18_ExtractorsReturnTheirComponent ==
    (Called /\ verb.name \in CalDateParts \ {"CalDateHour12"} /\ Len(verb.args) = 1)
        => /\ ret.st = "Ok"
           /\ IF verb.args[1].t = "DateValue"
              THEN /\ ret.tv.t = "Number"
                   /\ to_i64(ret.tv.v) =
                        Component(verb.name, timestamp(verb.args[1].v[1], verb.utc_offset))
              ELSE ret.tv = ErrorValue(DateExpected)

(***************************************************************************)
(* Properties of the data types.  verb.text is the text handed to parse,   *)
(* ret what parse returned, prev the type the text was rendered from.      *)
(***************************************************************************)
WasParsed == ret.st # "None"

\* C19: a text that to_column_type rendered from a type parses, to that type
\* (so that rendering what was parsed gives the text back)
C19_RenderedTextParsesBack ==
    (WasParsed /\ prev # NoType)
        => /\ ret = Parsed(prev)
           /\ to_column_type(ret.dt) = verb.text

\* the type expressions: a name, or a name and a list of arguments, each a
\* numeral of an integer or a name, between parentheses
IsName(lexeme) == lexeme \in Words
IsArgument(lexeme) == lexeme \in Numerals \cup Words
WellFormed(text) ==
    \/ Len(text) = 1 /\ IsName(text[1])
    \/ /\ Len(text) >= 4 /\ Len(text) % 2 = 0
       /\ IsName(text[1]) /\ text[2] = "(" /\ text[Len(text)] = ")"
       /\ \A i \in 3..(Len(text) - 1) :
            IF i % 2 = 1 THEN IsArgument(text[i]) ELSE text[i] = ","

ArgumentsOf(text) == {i \in 3..(Len(text) - 1) : i % 2 = 1}
ParameterlessNames ==
    {"Boolean", "Byte", "Date", "f64", "Float", "Int", "Long", "RecordNumber", "Short",
     "UUID"}
SizedNames == {"BLOB", "CLOB", "String"}
KnownNames == ParameterlessNames \cup SizedNames \cup {"Enum", "Struct", "Table"}

\* the inputs that are no valid type expression
NotAType(text) ==
    \/ ~WellFormed(text)
    \/ text[1] \notin KnownNames
    \/ text[1] \in ParameterlessNames /\ ArgumentsOf(text) # {}
    \/ /\ text[1] \in SizedNames
       /\ \/ Cardinality(ArgumentsOf(text)) # 1
          \/ text[3] \notin Numerals

\* C20: parse returns an error, and does not abort, for an input that is no
\* valid type expression: an unknown name, an argument to a type that takes
\* none, a sized type with no argument, several, or one that is no integer,
\* an empty or malformed text
C20_InvalidTextsAreRejected ==
    (WasParsed /\ NotAType(verb.text)) => ret.st = "Err"

(***************************************************************************)
(* Properties of the codec.  verb is the value and its data type, prev the *)
(* bytes encode made of the value, ret what decode made of the bytes.      *)
(***************************************************************************)
WasDecoded == ret # NotDecoded

\* C21: decoding the bytes that encode made of a value, with the data type of
\* the value and at offset 0, gives the value again
C21_CodecRoundTrip == WasDecoded => ret = verb.value

(***************************************************************************)
(* Properties of the loops of the verbs.                                   *)
(***************************************************************************)
InLoop == verb.name \in {"delete_where", "undelete_where", "overwrite_where", "update_where"}

\* the ids of the turns that wrote a tombstone, a restored row or a row image
Writes == SelectSeq(ret, LAMBDA t : t.wrote)

Ascending(log) == \A i, j \in DOMAIN log : i < j => log[i].id < log[j].id

\* the rows the verb has changed so far are the rows its turns wrote
Written == \A id \in 0..(Len(rows) - 1) :
                rows[id + 1] # prev[id + 1] => \E i \in DOMAIN Writes : Writes[i].id = id

\* C22: delete_where, undelete_where, overwrite_where and update_where visit the row
\* ids in strictly ascending order and each id at most once, so the tombstones and row
\* images they write appear in ascending id order, and the whole loop does what the
\* verb does
C22_VisitsAscend ==
    InLoop =>
        /\ Ascending(ret)
        /\ Ascending(Writes)
        /\ \A i \in DOMAIN ret : ret[i].id = i - 1
        /\ Written
        /\ ~verb.running /\ verb.st = "Ok" /\ verb.name = "delete_where" =>
                /\ rows = delete_where(prev, machine, verb.condition, verb.limit,
                                       overflow_checks).rc
                /\ Len(ret) = Len(verb.ids)

\* a verb has written two rows, and passed over a row between two turns
C22_Witness ==
    /\ InLoop
    /\ ~verb.running
    /\ Len(Writes) >= 2
    /\ Len(ret) > Len(Writes)

(***************************************************************************)
(* Properties of the counts the verbs return.                              *)
(***************************************************************************)
\* the row ids that were active before the verb and are tombstoned after it
Tombstoned == {id \in 0..(Len(prev) - 1) : prev[id + 1].active /\ ~rows[id + 1].active}

\* the row ids that were tombstoned before the verb and are active after it
Restored == {id \in 0..(Len(prev) - 1) : ~prev[id + 1].active /\ rows[id + 1].active}

\* what the same delete_where does when it is run once more
DeletedAgain == delete_where(rows, Scope, verb.condition, verb.limit, overflow_checks)

\* C23: delete_where returns exactly the number of rows it changed from active to
\* tombstoned; a row that was tombstoned before is neither counted nor changed, and the
\* same delete_where run once more returns 0 and leaves the table as it is
C23_DeleteWhereCountsTombstones ==
    verb.name = "delete_where" =>
        /\ ret = RowsAffected(Cardinality(Tombstoned))
        /\ Len(rows) = Len(prev)
        /\ \A id \in 0..(Len(prev) - 1) :
                \/ id \in Tombstoned /\ rows[id + 1] = [prev[id + 1] EXCEPT !.active = FALSE]
                \/ rows[id + 1] = prev[id + 1]
        /\ DeletedAgain.value = RowsAffected(0)
        /\ DeletedAgain.rc = rows

\* delete_where has tombstoned a row of a table that held a tombstone already and
\* keeps an active row
C23_Witness ==
    /\ verb.name = "delete_where"
    /\ Tombstoned # {}
    /\ \E id \in 0..(Len(prev) - 1) : ~prev[id + 1].active
    /\ \E id \in 0..(Len(rows) - 1) : rows[id + 1].active

\* the table after delete_where and then undelete_where with the same predicate
DeletedAndRestored(rc, condition, limit) ==
    undelete_where(delete_where(rc, Scope, condition, limit, overflow_checks).rc, Scope,
                   condition, limit, overflow_checks).rc

\* C24: undelete_where restores exactly the tombstoned rows (among the ids it visits)
\* that satisfy the predicate and returns the number restored; on a table without
\* earlier tombstones, delete_where(p) followed by undelete_where(p) yields the
\* original active rows
C24_UndeleteWhereRestores ==
    /\ verb.name = "undelete_where" =>
            /\ Restored = {id \in Visited(prev, verb.limit) :
                                /\ ~prev[id + 1].active
                                /\ Matches(verb.condition, prev[id + 1].fields)}
            /\ ret = RowsAffected(Cardinality(Restored))
            /\ Len(rows) = Len(prev)
            /\ \A id \in 0..(Len(prev) - 1) :
                    \/ id \in Restored /\ rows[id + 1] = [prev[id + 1] EXCEPT !.active = TRUE]
                    \/ rows[id + 1] = prev[id + 1]
    /\ (\A id \in 0..(Len(rows) - 1) : rows[id + 1].active) =>
            \A condition \in Conditions, limit \in Limits :
                /\ DeletedAndRestored(rows, condition, limit) = rows
                /\ read_active_rows(DeletedAndRestored(rows, condition, limit))
                        = read_active_rows(rows)

\* undelete_where has restored the rows that delete_where with the same predicate had
\* tombstoned in a table of active rows, one of which the predicate does not match
C24_Witness ==
    /\ verb.name = "undelete_where"
    /\ Restored # {}
    /\ \A id \in 0..(Len(rows) - 1) : rows[id + 1].active
    /\ prev = delete_where(rows, Scope, verb.condition, verb.limit, overflow_checks).rc
    /\ \E id \in Visited(prev, verb.limit) :
            /\ prev[id + 1].active
            /\ ~Matches(verb.condition, prev[id + 1].fields)

(***************************************************************************)
(* Properties of overwrite_where and update_where.                         *)
(***************************************************************************)
\* the row ids the verb has to rewrite: visited, active and matching the predicate
Targets == {id \in Visited(prev, verb.limit) :
                /\ prev[id + 1].active
                /\ Matches(verb.condition, prev[id + 1].fields)}

\* the fields of a row with the column exchange set to "OTC" and symbol as it was
Rewritten(fields) == <<fields[1], StringValue("OTC")>>

Rewrites == verb.name \in {"overwrite_where", "update_where"} /\ verb.st = "Ok"

\* C25: overwrite_where and update_where change only rows that are active and match
\* the predicate; in such a row only the named columns change, the row keeps its id
\* and stays active; every other row is unchanged, and the count returned is the number
\* of rows overwritten
C25_RewritesKeepTheFrame ==
    Rewrites =>
        /\ Len(rows) = Len(prev)
        /\ ret = RowsAffected(Cardinality(Targets))
        /\ \A id \in 0..(Len(prev) - 1) :
                IF id \in Targets
                THEN rows[id + 1] = [id |-> id, active |-> TRUE,
                                     fields |-> Rewritten(prev[id + 1].fields)]
                ELSE rows[id + 1] = prev[id + 1]

\* update_where has set the exchange of a matching active row and passed over a
\* matching row that is tombstoned
C25_Witness ==
    /\ Rewrites
    /\ verb.name = "update_where"
    /\ \E id \in Targets : rows[id + 1] # prev[id + 1]
    /\ \E id \in Visited(prev, verb.limit) :
            /\ ~prev[id + 1].active
            /\ Matches(verb.condition, prev[id + 1].fields)

(***************************************************************************)
(* Properties of the WebSocket sessions.                                   *)
(***************************************************************************)
\* the frames of a connection the actor has handled, in the order they were sent
Handled(c) == SubSeq(rows[c], 1, Len(rows[c]) - Len(script[c]))

\* the requests among them: the frames the actor has to answer
Answerable(c) == SelectSeq(Handled(c), LAMBDA m : m.kind \in {"Text", "Binary", "ProtocolError"})

\* the binary frames the actor has transmitted
Responses(c) == SelectSeq(answer[c], LAMBDA m : m.kind = "Binary")

\* the tree a request carries
TreeOf(msg) == IF msg.kind = "Binary" THEN msg.body[2] ELSE msg.body

\* the value of x after the first k of the requests: the value of the last assignment
RECURSIVE ValueOfX(_, _)
ValueOfX(requests, k) ==
    IF k = 0 THEN Undefined
    ELSE IF requests[k].kind = "Text" /\ TreeOf(requests[k]).node = "SetVariable"
    THEN TreeOf(requests[k]).e.value
    ELSE ValueOfX(requests, k - 1)

\* the response the k-th request has to get
Expected(requests, k) ==
    CASE requests[k].kind = "ProtocolError" -> ErrorValue("protocol error")
      [] TreeOf(requests[k]).node = "SetVariable" -> Undefined
      [] TreeOf(requests[k]).node = "Variable" -> ValueOfX(requests, k - 1)
      [] OTHER -> ErrorValue("Unhandled expression")

\* C26: a session handles the frames in arrival order and sends exactly one binary
\* frame for each Text or Binary request, so the k-th response is the result of the
\* k-th request; an evaluation or protocol error is sent as an ErrorValue response and
\* neither ends the session nor skips a response
C26_OneResponsePerRequest ==
    \A c \in Connections :
        /\ verb[c] = "open"
        /\ Len(Responses(c)) = Len(Answerable(c))
        /\ \A k \in 1..Len(Responses(c)) :
                read_next(Responses(c)[k]) = Expected(Answerable(c), k)

\* the value the interpreter of a connection holds for x
Held(c) == IF "x" \in DOMAIN machine[c].variables THEN machine[c].variables["x"]
           ELSE Undefined

\* C27: every connection owns its interpreter: the interpreter of a connection holds
\* for a variable the last value a frame of that connection assigned, a later frame
\* of the connection reads that value, and the frames of another connection neither
\* see nor change it, in whatever order the frames of two connections are handled
C27_ConnectionsAreIsolated ==
    \A c \in Connections :
        /\ Held(c) = ValueOfX(Handled(c), Len(Handled(c)))
        /\ \A k \in 1..Len(Responses(c)) :
                /\ Answerable(c)[k].kind = "Binary"
                /\ TreeOf(Answerable(c)[k]).node = "Variable"
                => read_next(Responses(c)[k]) = ValueOfX(Answerable(c), k - 1)

\* a connection has assigned x, then another connection has assigned another value,
\* then the first connection has read x
C27_Witness ==
    \E c, d \in Connections :
        /\ c # d
        /\ prev = <<c, d, c>>
        /\ Held(c) # Undefined
        /\ Held(d) # Undefined
        /\ Held(c) # Held(d)
        /\ Len(ret[c]) = 2
        /\ ret[c][2] = Held(c)

\* C28: oxide::assert(v) returns Ack when v is Boolean true,
\* ErrorValue(AssertionError("true", "false")) when v is Boolean false, and the error
\* itself when v is an error value; the machine is returned unchanged
C28_AssertReturnsAckOrError ==
    (Called /\ verb.name = "OxideAssert" /\ Len(verb.args) = 1) =>
        /\ ret.st = "Ok"
        /\ ret.ms = machine
        /\ verb.args[1] = Boolean(TRUE) => ret.tv = Ack
        /\ verb.args[1] = Boolean(FALSE) =>
                ret.tv = ErrorValue(AssertionError("true", "false"))
        /\ verb.args[1].t = "ErrorValue" => ret.tv = verb.args[1]

(***************************************************************************)
(* Properties of code blocks.                                              *)
(***************************************************************************)
\* the machine after the first k operations, each evaluated on its own on the machine
\* the one before it returned
RECURSIVE MachineAfter(_, _, _)
MachineAfter(ms, ops, k) ==
    IF k = 0 THEN ms
    ELSE evaluate(MachineAfter(ms, ops, k - 1), ops[k], overflow_checks).ms

\* C29: a code block that returns has evaluated its operations in order, each on the
\* machine the one before it returned; it yields the result of the last operation and
\* the final machine; an empty block yields Undefined and the machine unchanged
C29_CodeBlockThreadsTheMachine ==
    (script.node = "CodeBlock" /\ answer.st = "Ok") =>
        /\ machine = MachineAfter(before, script.ops, Len(script.ops))
        /\ script.ops # <<>> =>
                answer.tv = evaluate(MachineAfter(before, script.ops, Len(script.ops) - 1),
                                     script.ops[Len(script.ops)], overflow_checks).tv
        /\ script.ops = <<>> => answer.tv = Undefined /\ machine = before

\* a block of three operations has returned the value its second operation computed
\* from the value its first operation assigned, on a machine that held another value
C29_Witness ==
    /\ script.node = "CodeBlock"
    /\ Len(script.ops) = 3
    /\ answer = [st |-> "Ok", tv |-> Int64Value(6)]
    /\ "x" \in DOMAIN before.variables
    /\ before.variables["x"] = Int64Value(1)
    /\ machine.variables["x"] = Int64Value(6)

(***************************************************************************)
(* Properties of select over the rows a variable holds.                    *)
(***************************************************************************)
\* the rows the variable stocks held when select was called
Source == before.variables["stocks"].v

\* C30: select over the rows held in memory returns exactly the source rows for which
\* the condition evaluates to Boolean true, in the order of the source and with the ids
\* they have there (all rows when there is no condition); the variable that holds the
\* source and the machine of the caller are as before
C30_SelectFiltersInMemory ==
    verb.name = "select_from" =>
        /\ out.st = "Ok"
        /\ ret = ArrayOfRows(SelectSeq(Source,
                                       LAMBDA row : Matches(verb.condition, row.fields)))
        /\ out.ms = before
        /\ out.ms.variables["stocks"] = ArrayOfRows(Source)

\* select has returned the second of two rows, with its id, and not the first
C30_Witness ==
    /\ verb.name = "select_from"
    /\ Len(Source) = 2
    /\ ret.t = "ArrayOfRows"
    /\ Len(ret.v) = 1
    /\ ret.v[1] = Source[2]
    /\ ret.v[1].id = 1

\* overwrite_where or update_where has failed while it processed a row
RewriteFailed == verb.name \in {"overwrite_where", "update_where"} /\ verb.st # "Ok"

\* the rows below id k that had to be rewritten are rewritten, every other row is as
\* it was
RewrittenBelow(k) ==
    /\ Len(rows) = Len(prev)
    /\ \A id \in 0..(Len(prev) - 1) :
            IF id < k /\ id \in Targets
            THEN rows[id + 1] = [id |-> id, active |-> TRUE,
                                 fields |-> Rewritten(prev[id + 1].fields)]
            ELSE rows[id + 1] = prev[id + 1]

\* C31: when overwrite_where or update_where fails while processing row id k, the verb
\* returns the error and no count; the matching rows below k stay overwritten and the
\* rows from k on are unchanged
C31_FailureReturnsTheError ==
    RewriteFailed =>
        /\ verb.st = "Err"
        /\ ret.t = "io::Error"
        /\ \E k \in Targets : RewrittenBelow(k)

(***************************************************************************)
(* Properties of the catalog of platform functions.                        *)
(***************************************************************************)
\* the variants with the package and the name looked up
Keyed == {op \in PlatformOps : get_package_name(op) = verb.package /\ get_name(op) = verb.name}

\* C32: every variant of PlatformOps is in PLATFORM_OPCODES exactly once, no two
\* variants have the same (package, name), find_function of the package and the name
\* of a variant returns the entry of that variant, and find_function returns None for
\* a pair no variant has
C32_CatalogIsKeyedByPackageAndName ==
    /\ \A op \in PlatformOps :
            Cardinality({i \in DOMAIN PLATFORM_OPCODES : PLATFORM_OPCODES[i] = op}) = 1
    /\ \A i \in DOMAIN PLATFORM_OPCODES : PLATFORM_OPCODES[i] \in PlatformOps
    /\ Cardinality(Keyed) <= 1
    /\ ret.st = "Ok" =>
            /\ \A op \in Keyed :
                    ret.found = [name |-> verb.name, package_name |-> verb.package,
                                 opcode |-> op]
            /\ Keyed = {} => ret.found = NoneValue

\* the function str::right has been looked up and found
C32_Witness ==
    /\ ret.st = "Ok"
    /\ verb = [package |-> "str", name |-> "right"]
    /\ ret.found.opcode = "StrRight"

(***************************************************************************)
(* Properties of the stack of the machine.                                 *)
(***************************************************************************)
\* C33: the stack is LIFO and independent of the scope: push_all leaves the stack it
\* was called on followed by the values in order; pop directly after push(v) returns v
\* and the stack from before the push; pop on an empty stack returns None and an empty
\* stack; push, pop and push_all leave the variables as they are, set and
\* with_variable leave the stack as it is
C33_StackIsLifo ==
    /\ script.node = "push_all" =>
            /\ out.ms.stack = before.stack \o script.values
            /\ out.ms.variables = before.variables
    /\ script.node = "push" =>
            /\ pop(out.ms).value = script.value
            /\ pop(out.ms).ms.stack = before.stack
            /\ pop(out.ms).ms.variables = before.variables
            /\ out.ms.variables = before.variables
    /\ script.node = "pop" =>
            /\ out.ms.variables = before.variables
            /\ before.stack = <<>> => (out.tv = NoneValue /\ out.ms.stack = <<>>)
            /\ before.stack # <<>> =>
                    /\ out.tv = before.stack[Len(before.stack)]
                    /\ out.ms.stack = SubSeq(before.stack, 1, Len(before.stack) - 1)
    /\ script.node \in {"set", "with_variable"} => out.ms.stack = before.stack

\* push_all has put two different values, in their order, on the stack of a machine
\* that holds a variable
C33_Witness ==
    /\ script.node = "push_all"
    /\ Len(script.values) >= 2
    /\ script.values[1] # script.values[2]
    /\ out.ms.stack = before.stack \o script.values
    /\ DOMAIN before.variables # {}

(***************************************************************************)
(* Properties of Between                                                   *)
(***************************************************************************)
NumericTriple == \A v \in {verb.x, verb.lo, verb.hi} : IsNumeric(v)
\* lo <= x <= hi, on the numbers the operands stand for
Within(x, lo, hi) ==
    /\ FloatCmp(assume_numeric(lo), assume_numeric(x)) \in {"Less", "Equal"}
    /\ FloatCmp(assume_numeric(x), assume_numeric(hi)) \in {"Less", "Equal"}

\* C34: on every numeric triple the value-level between(x, lo, hi) and the Between(x,
\* lo, hi) node of the evaluator agree: both are true exactly when lo <= x <= hi
C34_BetweenAgrees ==
    (verb.name = "between" /\ NumericTriple /\ answer.st = "Ok" /\ out.st = "Ok") =>
        /\ answer.tv = out.tv
        /\ out.tv = Boolean(Within(verb.x, verb.lo, verb.hi))

(***************************************************************************)
(* Properties of the control frames                                        *)
(***************************************************************************)
\* the last frame the actor handled was answered as a control frame is to be: a Ping
\* with one Pong, a Pong with no frame
ServerAnswers ==
    \A c \in Connections :
        /\ ret[c].received.kind = "Ping" =>
                (Len(ret[c].sent) = 1 /\ ret[c].sent[1].kind = "Pong")
        /\ ret[c].received.kind = "Pong" => ret[c].sent = <<>>

\* no frame is on its way, to the actor or to the peer
Quiet == \A c \in Connections : script[c] = <<>> /\ answer[c] = <<>>

\* C35: the server answers each Ping with exactly one Pong and sends no frame in
\* response to a Pong, so the exchange of control frames that a single frame of a peer
\* starts, with a peer that answers Pings with Pongs, comes to an end
C35_ControlExchangeIsFinite == []ServerAnswers /\ <>[]Quiet

(***************************************************************************)
(* Properties of the token slice.  rows and ret are the vector and the     *)
(* cursor after the last call, before and prev the two before it.          *)
(***************************************************************************)
\* C36: after any sequence of take, next, previous, scan_to, scan_until and capture
\* the cursor lies in 0..len, the token vector is as it was, and no call has read an
\* index outside 0..len-1, at the end of the slice and on an empty slice too
C36_CursorStaysInTheSlice ==
    /\ 0 <= ret /\ ret <= Len(rows)
    /\ rows = before
    /\ out.st # "Panic"
    /\ out.reads \subseteq 0..(Len(rows) - 1)

\* C37: take returns the token at the cursor and moves the cursor on by one, at the end
\* it returns None and does not move; previous moves the cursor back by one and returns
\* the token there, at position 0 it returns None and does not move; so previous after
\* a take that returned Some(t) returns t, and previous after a take that returned None
\* returns the last token of the slice (None, by the rule for position 0, when the
\* slice has no token)
C37_TakeAndPreviousAreInverse ==
    /\ verb.name = "take" =>
            IF prev < Len(before)
            THEN out.value = before[prev + 1] /\ ret = prev + 1
            ELSE out.value = NoneValue /\ ret = prev
    /\ verb.name = "previous" =>
            IF prev > 0
            THEN ret = prev - 1 /\ out.value = before[ret + 1]
            ELSE out.value = NoneValue /\ ret = prev
    /\ (verb.name = "previous" /\ answer.name = "take") =>
            IF answer.value # NoneValue THEN out.value = answer.value
            ELSE IF rows # <<>> THEN out.value = rows[Len(rows)]
            ELSE out.value = NoneValue

\* take has returned None at the end of a slice of two tokens or more, and previous has
\* then returned the last token
C37_Witness ==
    /\ verb.name = "previous"
    /\ answer.name = "take"
    /\ answer.value = NoneValue
    /\ Len(rows) >= 2
    /\ out.value = rows[Len(rows)]
    /\ ret = Len(rows) - 1

\* the positions from the cursor on whose token the predicate of the last call accepts
Accepted == {i \in prev..(Len(before) - 1) : get_raw_value(before[i + 1]) \in verb.f}
FirstMatch == CHOOSE i \in Accepted : \A j \in Accepted : i <= j

\* C38: scan_to(f) moves the cursor to the first token at or after the cursor that f
\* accepts and returns the tokens from the old cursor up to that token, without it;
\* when the end is reached before such a token is found the cursor does not move and
\* the result is empty
C38_ScanToStopsBeforeTheMatch ==
    verb.name = "scan_to" =>
        IF Accepted # {}
        THEN ret = FirstMatch /\ out.value = SubSeq(before, prev + 1, FirstMatch)
        ELSE ret = prev /\ out.value = <<>>

\* scan_to has passed two tokens or more and stopped on the first one accepted
C38_Witness ==
    /\ verb.name = "scan_to"
    /\ Accepted # {}
    /\ ret = FirstMatch
    /\ ret >= prev + 2
    /\ out.value = SubSeq(before, prev + 1, ret)

\* C39: scan_until(f) moves the cursor to the first token at or after the cursor that
\* f accepts and returns the tokens from the old cursor through that token; when the
\* end is reached before such a token is found the cursor does not move and the
\* result is empty
C39_ScanUntilIncludesTheMatch ==
    verb.name = "scan_until" =>
        IF Accepted # {}
        THEN ret = FirstMatch /\ out.value = SubSeq(before, prev + 1, FirstMatch + 1)
        ELSE ret = prev /\ out.value = <<>>

\* the position of the first end token after the cursor, the end of the slice when
\* there is none
Ends == {i \in (prev + 1)..(Len(before) - 1) : get_raw_value(before[i + 1]) = verb.end}
FirstEnd == IF Ends = {} THEN Len(before) ELSE CHOOSE i \in Ends : \A j \in Ends : i <= j
\* the tokens strictly between the cursor and that position, without the delimiters
\* when a delimiter is given
Enclosed ==
    SelectSeq(SubSeq(before, prev + 2, FirstEnd),
              LAMBDA t : verb.delim = <<>> \/ get_raw_value(t) # verb.delim[1])

\* C40: when the token under the cursor is start, capture(start, end, delim) returns in
\* order the tokens strictly between start and the first end token that follows,
\* without the delimiter tokens when a delimiter is given and with them when delim is
\* None, and leaves the cursor on the end token, or at the end of the slice when there
\* is no end token; when the token under the cursor is not start it returns an empty
\* list and does not move the cursor
C40_CaptureReturnsTheEnclosedTokens ==
    (verb.name = "capture" /\ prev < Len(before)) =>
        IF get_raw_value(before[prev + 1]) = verb.start
        THEN out.value = Enclosed /\ ret = FirstEnd
        ELSE out.value = <<>> /\ ret = prev

====
